---- MODULE Spec2Model ----
(***************************************************************************)
(* ConsumerService of coalooball/alerts (src/src/consumer_service.rs):     *)
(* the registry it reads, the tracked consumer collection, the spawned     *)
(* consumer tasks with their receive loop, message classification and the  *)
(* two ClickHouse inserts per classified message.                          *)
(***************************************************************************)
EXTENDS Naturals, Sequences, FiniteSets, TLC

\* ------------------------------------------------------------------ bounds
\* consumer tasks spawned over the whole run
MaxTasks == 3
\* consumer tasks spawned while the tasks' own steps are followed
MaxWorkers == 2
\* messages the brokers deliver over the whole run
MaxMsgs == 2
\* receive errors the brokers raise over the whole run
MaxErrs == 3
\* receivers subscribed to the feed over the whole run
MaxReceivers == 1
\* values the feed channel holds (the argument of broadcast::channel)
FeedCapacity == 2
\* administrative calls made while their steps are followed one by one
MaxCalls == 2

\* ---------------------------------------------------------------- registry
\* ids of the rows of kafka_configs
Sources == {"S1", "S2", "S3"}

\* the rows in created_at order (get_active_kafka_configs: ORDER BY created_at ASC)
SourceOrder == <<"S1", "S2", "S3">>

\* KafkaConfigRow.topic; two rows may name the same topic
Topic(id) == IF id = "S2" THEN "t2" ELSE "t1"

\* data_source_configs.data_type values the service distinguishes
DataTypes == {"edr", "ngav"}

\* -------------------------------------------------------------- documents
EdrMarkers == {"report_id", "device_id", "process_path", "parent_path"}
NgavMarkers == {"threat_id", "policy_id", "workflow", "reason"}
Markers == EdrMarkers \cup NgavMarkers

\* a key of the payload's JSON object: absent, present with a value the
\* typed field rejects (null, wrong type), or present and well typed
FieldStates == {"absent", "bad", "ok"}

\* a payload: json = it parses as JSON; fld = its marker keys; restEdr /
\* restNgav = every other required field of EdrAlert / NgavAlert is present
\* and well typed
NotJson == [json |-> FALSE, fld |-> [m \in Markers |-> "absent"], restEdr |-> FALSE, restNgav |-> FALSE]
JsonDocs == [json : {TRUE}, fld : [Markers -> FieldStates], restEdr : BOOLEAN, restNgav : BOOLEAN]
AllDocs == JsonDocs \cup {NotJson}

looks_like_edr(doc) == \A m \in EdrMarkers : doc.fld[m] # "absent"

looks_like_ngav(doc) == \A m \in NgavMarkers : doc.fld[m] # "absent"

\* serde_json::from_value::<EdrAlert>: every field of the struct is required
ParsesAsEdrLax(doc) == doc.json /\ doc.restEdr /\ \A m \in EdrMarkers \ {"parent_path"} : doc.fld[m] = "ok"
ParsesAsEdr(doc) == doc.json /\ doc.restEdr /\ \A m \in EdrMarkers : doc.fld[m] = "ok"

\* serde_json::from_value::<NgavAlert>: device_id is a required field too
ParsesAsNgav(doc) == doc.json /\ doc.restNgav /\ doc.fld["device_id"] = "ok" /\ \A m \in NgavMarkers : doc.fld[m] = "ok"

\* process_message with the declared type falling through to sniffing
ClassifyFallThrough(data_type, doc) ==
    IF ~doc.json THEN "error"
    ELSE IF data_type = "edr" /\ ParsesAsEdr(doc) THEN "edr"
    ELSE IF data_type = "ngav" /\ ParsesAsNgav(doc) THEN "ngav"
    ELSE IF looks_like_edr(doc) THEN (IF ParsesAsEdr(doc) THEN "edr" ELSE "unrecognized")
    ELSE IF looks_like_ngav(doc) THEN (IF ParsesAsNgav(doc) THEN "ngav" ELSE "unrecognized")
    ELSE "unrecognized"

\* process_message with the sniffing order swapped (NGAV test first)
ClassifyNgavFirst(data_type, doc) ==
    IF ~doc.json THEN "error"
    ELSE IF data_type = "edr" THEN (IF ParsesAsEdr(doc) THEN "edr" ELSE "unrecognized")
    ELSE IF data_type = "ngav" THEN (IF ParsesAsNgav(doc) THEN "ngav" ELSE "unrecognized")
    ELSE IF looks_like_ngav(doc) THEN (IF ParsesAsNgav(doc) THEN "ngav" ELSE "unrecognized")
    ELSE IF looks_like_edr(doc) THEN (IF ParsesAsEdr(doc) THEN "edr" ELSE "unrecognized")
    ELSE "unrecognized"

\* process_message, up to the store call: which store function it calls
\* ("edr", "ngav"), "unrecognized" when it skips, "error" when the JSON parse
\* fails and it returns Err
Classify(data_type, doc) ==
    IF ~doc.json THEN "error"
    ELSE IF data_type = "edr" THEN (IF ParsesAsEdr(doc) THEN "edr" ELSE "unrecognized")
    ELSE IF data_type = "ngav" THEN (IF ParsesAsNgav(doc) THEN "ngav" ELSE "unrecognized")
    ELSE IF looks_like_edr(doc) THEN (IF ParsesAsEdr(doc) THEN "edr" ELSE "unrecognized")
    ELSE IF looks_like_ngav(doc) THEN (IF ParsesAsNgav(doc) THEN "ngav" ELSE "unrecognized")
    ELSE "unrecognized"

\* --------------------------------------------------------------- variables
VARIABLES
    is_active,            \* kafka_configs rows with is_active = true
    bad_config,           \* rows whose consumer cannot be created or subscribed
    data_source_configs,  \* table data_source_configs: pairs <<data_type, id>>
    data_source_mapping,  \* ConsumerService.data_source_mapping
    consumers,            \* ConsumerService.consumers: id -> ConsumerInstance
    tasks,                \* every task tokio::spawn has created, by handle
    result,               \* the last administrative call and what it returned
    clickhouse,           \* the inserts the tasks have issued, in order
    feed,                 \* the KafkaMessages sent on message_sender, in order
    delivered,            \* messages the brokers have delivered so far
    recv_errors,          \* receive errors the brokers have raised so far
    receivers,            \* the broadcast::Receivers subscribed to message_sender
    calls,                \* administrative calls in flight, when followed step by step
    graph,                \* InMemoryGraphDB: the alerts and the relations, in the order added
    related               \* the find_related_alerts call made on the graph as it is, and what it returned

\* InMemoryGraphDB::new(), and no query made yet
NoGraph == [nodes |-> <<>>, edges |-> <<>>]
NoQuery == [alert_id |-> "none", max_depth |-> 0, result |-> <<>>]

vars == <<is_active, bad_config, data_source_configs, data_source_mapping, consumers, tasks, result, clickhouse, feed, delivered, recv_errors, receivers, calls, graph, related>>

registry == <<is_active, bad_config, data_source_configs>>

\* the empty HashMap
EmptyMap == [x \in {} |-> 0]

\* HashMap::insert
Put(map, k, v) == [x \in (DOMAIN map) \cup {k} |-> IF x = k THEN v ELSE map[x]]

NoMsg == [offset |-> 0, partition |-> 0, doc |-> NotJson, data_type |-> "none"]

\* the task as tokio::spawn creates it: about to call consumer.recv();
\* guard = it holds a read guard of the mapping
NewTask(id) ==
    [config_id |-> id, pc |-> "recv", aborted |-> FALSE, errs |-> 0, msg |-> NoMsg, class |-> "none", guard |-> FALSE]

\* the mapping refresh_data_source_mapping builds from the rows, which come
\* ordered by data_type: a later insert for the same id replaces the earlier
MappingOf(rows) ==
    [id \in {r[2] : r \in rows} |-> IF <<"ngav", id>> \in rows THEN "ngav" ELSE "edr"]

\* data_source_mapping.get(&config_id) as an Option
MappingGet(map, id) == IF id \in DOMAIN map THEN map[id] ELSE "none"

\* ------------------------------------------------- administrative operations
\* the state the operations below transform
Cur == [consumers |-> consumers, tasks |-> tasks, mapping |-> data_source_mapping, ok |-> TRUE, err |-> "none"]

get_active_kafka_configs_all == SourceOrder
get_active_kafka_configs == SelectSeq(SourceOrder, LAMBDA id : id \in is_active)

\* start_consumer keyed by topic instead of config id
start_consumer_by_topic(st, id) ==
    IF id \in bad_config
    THEN [st EXCEPT !.ok = FALSE, !.err = "consumer"]
    ELSE [st EXCEPT !.tasks = Append(st.tasks, NewTask(id)),
                    !.consumers = Put(st.consumers, Topic(id), [handle |-> Len(st.tasks) + 1, config_id |-> id, topic |-> Topic(id)])]

\* start_consumer that spawns the task before the consumer is created
start_consumer_spawn_first(st, id) ==
    IF id \in bad_config
    THEN [st EXCEPT !.ok = FALSE, !.err = "consumer", !.tasks = Append(st.tasks, NewTask(id))]
    ELSE [st EXCEPT !.tasks = Append(st.tasks, NewTask(id)),
                    !.consumers = Put(st.consumers, id, [handle |-> Len(st.tasks) + 1, config_id |-> id, topic |-> Topic(id)])]

\* start_consumer: create and subscribe the consumer, spawn the task, insert
\* the instance under the config id
start_consumer(st, id) ==
    IF id \in bad_config
    THEN [st EXCEPT !.ok = FALSE, !.err = "consumer"]
    ELSE [st EXCEPT !.tasks = Append(st.tasks, NewTask(id)),
                    !.consumers = Put(st.consumers, id, [handle |-> Len(st.tasks) + 1, config_id |-> id, topic |-> Topic(id)])]

\* the for loop of start(): the ? leaves it at the first failure
RECURSIVE StartLoop(_, _)
StartLoop(st, configs) ==
    IF configs = <<>> THEN st
    ELSE LET r == start_consumer(st, Head(configs))
         IN  IF r.ok THEN StartLoop(r, Tail(configs)) ELSE r

\* start() that treats an empty list of active configs as a failure
start_empty_is_error(st, dbOk) ==
    IF ~dbOk THEN [st EXCEPT !.ok = FALSE, !.err = "registry"]
    ELSE IF get_active_kafka_configs = <<>> THEN [st EXCEPT !.ok = FALSE, !.err = "no_active"]
    ELSE StartLoop(st, get_active_kafka_configs)

\* start(); dbOk = the registry read succeeds; an empty list of active
\* configs is warned about and returns Ok before the loop
start(st, dbOk) ==
    IF ~dbOk THEN [st EXCEPT !.ok = FALSE, !.err = "registry"]
    ELSE IF get_active_kafka_configs = <<>> THEN st
    ELSE StartLoop(st, get_active_kafka_configs)

\* the handles the collection holds
Tracked(st) == {st.consumers[id].handle : id \in DOMAIN st.consumers}

\* stop() that clears the collection without aborting
stop_no_abort(st) == [st EXCEPT !.consumers = EmptyMap]

\* stop() that also forgets the mapping
stop_and_reset(st) ==
    [st EXCEPT !.consumers = EmptyMap,
               !.mapping = EmptyMap,
               !.tasks = [t \in DOMAIN st.tasks |-> IF t \in Tracked(st) THEN [st.tasks[t] EXCEPT !.aborted = TRUE] ELSE st.tasks[t]]]

\* stop(): drain the collection, abort every drained handle
stop(st) ==
    [st EXCEPT !.consumers = EmptyMap,
               !.tasks = [t \in DOMAIN st.tasks |-> IF t \in Tracked(st) THEN [st.tasks[t] EXCEPT !.aborted = TRUE] ELSE st.tasks[t]]]

\* refresh_data_source_mapping() that clears the mapping before it reads
\* the registry
refresh_data_source_mapping_clear_first(st, dbOk) ==
    IF ~dbOk THEN [st EXCEPT !.ok = FALSE, !.err = "registry", !.mapping = EmptyMap]
    ELSE [st EXCEPT !.mapping = MappingOf(data_source_configs)]

\* refresh_data_source_mapping(); dbOk = the registry read succeeds
refresh_data_source_mapping(st, dbOk) ==
    IF ~dbOk THEN [st EXCEPT !.ok = FALSE, !.err = "registry"]
    ELSE [st EXCEPT !.mapping = MappingOf(data_source_configs)]

\* refresh_consumers() without the stop step
refresh_consumers_no_stop(st, mapOk, activeOk) ==
    LET b == refresh_data_source_mapping(st, mapOk)
    IN  IF ~b.ok THEN b ELSE start(b, activeOk)

\* refresh_consumers(): stop, refresh the mapping, start
refresh_consumers(st, mapOk, activeOk) ==
    LET a == stop(st)
        b == refresh_data_source_mapping(a, mapOk)
    IN  IF ~b.ok THEN b ELSE start(b, activeOk)

\* get_consumer_status(): one entry per tracked instance; the key
\* "{config_id}_{topic}" is a function of the entry
get_consumer_status ==
    {[config_id |-> id,
      topic |-> consumers[id].topic,
      data_type |-> IF id \in DOMAIN data_source_mapping THEN data_source_mapping[id] ELSE "unknown",
      status |-> "running"] : id \in DOMAIN consumers}

\* what a call leaves in result
Outcome(op, r) ==
    [op |-> op, ok |-> r.ok, err |-> r.err, active |-> is_active,
     tracked_before |-> DOMAIN consumers, tasks_before |-> Len(tasks)]

Apply(op, r) ==
    /\ consumers' = r.consumers
    /\ tasks' = r.tasks
    /\ data_source_mapping' = r.mapping
    /\ result' = Outcome(op, r)
    /\ UNCHANGED <<graph, related, registry, clickhouse, feed, delivered, recv_errors, receivers, calls>>

Start ==
    /\ Len(tasks) + Cardinality(is_active) <= MaxTasks
    /\ \E dbOk \in BOOLEAN : Apply("start", start(Cur, dbOk))

Stop == Apply("stop", stop(Cur))

RefreshConsumers ==
    /\ Len(tasks) + Cardinality(is_active) <= MaxTasks
    /\ \E mapOk \in BOOLEAN, activeOk \in BOOLEAN :
          Apply("refresh", refresh_consumers(Cur, mapOk, activeOk))

RefreshDataSourceMapping ==
    \E dbOk \in BOOLEAN : Apply("refresh_mapping", refresh_data_source_mapping(Cur, dbOk))

\* database.rs toggle_kafka_config_active
\* database.rs save_data_source_config: the rows of one data type are
\* replaced by one row for each given source
SaveDataSourceConfig ==
    /\ \E data_type \in DataTypes, ids \in SUBSET {"S1"} :
          data_source_configs' = {r \in data_source_configs : r[1] # data_type} \cup {<<data_type, id>> : id \in ids}
    /\ UNCHANGED <<graph, related, is_active, bad_config, data_source_mapping, consumers, tasks, result, clickhouse, feed, delivered, recv_errors, receivers, calls>>
ToggleKafkaConfigActive ==
    /\ \E id \in Sources, flag \in BOOLEAN :
          is_active' = IF flag THEN is_active \cup {id} ELSE is_active \ {id}
    /\ UNCHANGED <<graph, related, bad_config, data_source_configs, data_source_mapping, consumers, tasks, result, clickhouse, feed, delivered, recv_errors, receivers, calls>>

\* ---------------------------------------------------------- consumer task
\* the payloads the brokers deliver in the task-level specifications: a valid
\* EDR alert, a valid NGAV alert, a JSON object with no marker, not JSON
\* ------------------------------------------------------------ normalizer
\* edr_alert.rs Publisher as a JSON object
Publishers == {<<>>, <<[name |-> "pub1", state |-> "FILE_STATE_TRUSTED"]>>,
               <<[name |-> "pub1", state |-> "FILE_STATE_TRUSTED"], [name |-> "pub2", state |-> "FILE_STATE_UNTRUSTED"]>>}

\* the values of a hash array and of a pid (a u32, copied without a cast)
Hashes == {<<>>, <<"md5">>, <<"md5", "sha256">>}
Pids == {0, 65535}

\* the JSON object of an EDR alert: the process and parent fields, and the
\* two fields of the alert key
BaseEdrJson ==
    [device_name |-> "host1", report_id |-> "rep1", create_time |-> "2024-01-01T00:00:00Z",
     parent_cmdline |-> "parent cmd", parent_guid |-> "parent guid", parent_hash |-> <<"phash">>,
     parent_path |-> "parent path", parent_pid |-> 1, parent_publisher |-> <<>>,
     parent_reputation |-> "parent rep", parent_username |-> "parent user",
     process_cmdline |-> "process cmd", process_guid |-> "process guid", process_hash |-> <<"hash">>,
     process_path |-> "process path", process_pid |-> 2, process_publisher |-> <<>>,
     process_reputation |-> "process rep", process_username |-> "process user"]

EdrJsons ==
    {[BaseEdrJson EXCEPT !.process_publisher = pp, !.parent_publisher = qp, !.process_hash = h, !.parent_pid = n] :
        pp \in Publishers, qp \in Publishers, h \in Hashes, n \in Pids}

\* serde_json::from_value::<EdrAlert>: each field of the struct takes the
\* value of its key; a publisher is decoded into a Publisher {name, state}
from_value_EdrAlert(json) ==
    [f \in DOMAIN json |->
        IF f \in {"parent_publisher", "process_publisher"}
        THEN [i \in DOMAIN json[f] |-> [name |-> json[f][i].name, state |-> json[f][i].state]]
        ELSE json[f]]

\* EdrAlert::get_alert_key: format!("{}_{}", device_name, report_id)
get_alert_key(edr) == <<edr.device_name, "_", edr.report_id>>

\* the timestamps that DateTime::parse_from_rfc3339 accepts, each with its
\* text in the format %Y-%m-%d %H:%M:%S%.3f (in the offset it was written in)
Rfc3339 ==
    [s \in {"2024-01-01T00:00:00Z", "2024-01-01T02:00:00+02:00"} |->
        IF s = "2024-01-01T00:00:00Z" THEN "2024-01-01 00:00:00.000" ELSE "2024-01-01 02:00:00.000"]

\* parse_datetime_for_clickhouse: the formatted timestamp, or, the parse
\* failing, Utc::now() formatted (written "now")
parse_datetime_for_clickhouse(datetime_str) ==
    IF datetime_str \in DOMAIN Rfc3339 THEN Rfc3339[datetime_str] ELSE "now"

\* impl From<&EdrAlert> for CommonAlert; id = the Uuid::new_v4() drawn
CommonAlertFromEdr(edr, id) ==
    [id |-> id, original_id |-> get_alert_key(edr), data_type |-> "edr",
     create_time |-> parse_datetime_for_clickhouse(edr.create_time),
     device_name |-> edr.device_name, threat_category |-> "", device_username |-> edr.process_username,
     kafka_topic |-> "", kafka_partition |-> 0, kafka_offset |-> 0, kafka_config_name |-> ""]

\* the conversion with the publishers copied whole
EdrAlertRowFromVerbatim(edr) ==
    [f \in DOMAIN edr \cup {"id"} |-> IF f = "id" THEN get_alert_key(edr) ELSE edr[f]]
\* impl From<&EdrAlert> for EdrAlertRow; a publisher is kept as its name
\* alone (p.name.clone()), written [name |-> n]
EdrAlertRowFrom(edr) ==
    [id |-> get_alert_key(edr), device_name |-> edr.device_name, report_id |-> edr.report_id,
     create_time |-> parse_datetime_for_clickhouse(edr.create_time),
     kafka_topic |-> "", kafka_partition |-> 0, kafka_offset |-> 0,
     parent_cmdline |-> edr.parent_cmdline, parent_guid |-> edr.parent_guid, parent_hash |-> edr.parent_hash,
     parent_path |-> edr.parent_path, parent_pid |-> edr.parent_pid,
     parent_publisher |-> [i \in DOMAIN edr.parent_publisher |-> [name |-> edr.parent_publisher[i].name]],
     parent_reputation |-> edr.parent_reputation, parent_username |-> edr.parent_username,
     process_cmdline |-> edr.process_cmdline, process_guid |-> edr.process_guid, process_hash |-> edr.process_hash,
     process_path |-> edr.process_path, process_pid |-> edr.process_pid,
     process_publisher |-> [i \in DOMAIN edr.process_publisher |-> [name |-> edr.process_publisher[i].name]],
     process_reputation |-> edr.process_reputation, process_username |-> edr.process_username]

\* insert_common_alert: the columns of the INSERT, in the record's values;
\* id and processed_time are not among them
insert_common_alert(alert) == [f \in DOMAIN alert \ {"id", "processed_time"} |-> alert[f]]

\* the number of insert calls of the sink-level specification
MaxInserts == 3

\* the CommonAlert values handed to the sink: two alerts, each under two
\* drawn ids
CommonAlerts ==
    {CommonAlertFromEdr(from_value_EdrAlert([BaseEdrJson EXCEPT !.device_name = d]), id) :
        d \in {"host1", "host2"}, id \in {"uuid1", "uuid2"}}

\* the id under which the table holds the row of the i-th insert: the id
\* the row carries, or, the row carrying none, one the table generates
StoreId(log, i) == IF "id" \in DOMAIN log[i].row THEN log[i].row.id ELSE "generated" \o ToString(i)

\* alerts.common_alerts after the inserts of the log: one logical record
\* for each id, holding the row stored last under it
CommonAlertsTable(log) ==
    LET stored == {i \in DOMAIN log : log[i].table = "common" /\ log[i].ok}
    IN  [k \in {StoreId(log, i) : i \in stored} |->
            log[CHOOSE i \in stored : StoreId(log, i) = k /\ \A j \in stored : StoreId(log, j) = k => j <= i].row]
\* a payload that is one of the EDR alerts above; create_time is a field
\* the struct requires
EdrDocOf(json) ==
    [json |-> TRUE, fld |-> [m \in Markers |-> IF m \in EdrMarkers THEN "ok" ELSE "absent"],
     restEdr |-> "create_time" \in DOMAIN json, restNgav |-> FALSE, body |-> json]

EdrDocuments == {EdrDocOf(json) : json \in EdrJsons}

\* EDR alerts whose create_time is a timestamp with an offset, a string
\* that is no timestamp, the empty string, or is not there
TimestampJsons ==
    {[BaseEdrJson EXCEPT !.create_time = s] : s \in {"2024-01-01T02:00:00+02:00", "yesterday", ""}}
    \cup {[f \in DOMAIN BaseEdrJson \ {"create_time"} |-> BaseEdrJson[f]]}

TimestampDocuments == {EdrDocOf(json) : json \in TimestampJsons}

\* the partitions a message comes from
Partitions == {0, 1}

\* the row store_edr_alert hands to the insert of the given table: the
\* converted alert with the topic, partition (as u32) and offset (as u64)
\* of the message, which are not negative (no row is modelled for the
\* payloads that carry no field values)
RowOf(table, kafka_message) ==
    IF "body" \notin DOMAIN kafka_message.payload THEN <<>>
    ELSE LET edr_alert == from_value_EdrAlert(kafka_message.payload.body)
             common_alert == [CommonAlertFromEdr(edr_alert, "uuid") EXCEPT
                                 !.kafka_topic = kafka_message.topic,
                                 !.kafka_partition = kafka_message.partition,
                                 !.kafka_offset = kafka_message.offset]
             edr_row == [EdrAlertRowFrom(edr_alert) EXCEPT
                                 !.kafka_topic = kafka_message.topic,
                                 !.kafka_partition = kafka_message.partition,
                                 !.kafka_offset = kafka_message.offset]
         IN  IF table = "common" THEN insert_common_alert(common_alert) ELSE edr_row
EdrDoc == [json |-> TRUE, fld |-> [m \in Markers |-> IF m \in EdrMarkers THEN "ok" ELSE "absent"], restEdr |-> TRUE, restNgav |-> FALSE]
NgavDoc == [json |-> TRUE, fld |-> [m \in Markers |-> IF m \in NgavMarkers \cup {"device_id"} THEN "ok" ELSE "absent"], restEdr |-> FALSE, restNgav |-> TRUE]
OtherDoc == [json |-> TRUE, fld |-> [m \in Markers |-> "absent"], restEdr |-> FALSE, restNgav |-> FALSE]
WorkerDocs == {EdrDoc, NgavDoc, OtherDoc, NotJson}

\* the points where the task waits: recv().await, sleep().await, the two
\* insert awaits and the read().await of the mapping
AwaitPcs == {"recv", "backoff", "insert_common", "insert_type", "lock_mapping"}

\* tokio::spawn: the task is scheduled on its own, whatever the others do
CanRunSerial(t) == t \in DOMAIN tasks /\ \A u \in DOMAIN tasks \ {t} : tasks[u].pc \notin {"recv", "backoff"} \/ tasks[u].aborted
CanRun(t) == t \in DOMAIN tasks

SetTask(t, task) == tasks' = [tasks EXCEPT ![t] = task]

\* the messages the broker may deliver to the consumer of task t again: those
\* another consumer of the same source has received and t has not (a new
\* consumer resumes from the committed offset of its group, or from
\* auto.offset.reset when nothing is committed)
Redelivered(t) ==
    {feed[i].offset : i \in {j \in DOMAIN feed : feed[j].config_id = tasks[t].config_id /\ feed[j].task # t}}
        \ {feed[i].offset : i \in {j \in DOMAIN feed : feed[j].task = t}}

\* the payload of message off: any for a new message, the one it had for a
\* message delivered before
PayloadsOf(off) ==
    IF off > delivered THEN WorkerDocs
    ELSE {feed[i].payload : i \in {j \in DOMAIN feed : feed[j].offset = off}}

\* the mapping read once: the type the task's first envelope carried
DeclaredTypeOnce(t) ==
    LET mine == {i \in DOMAIN feed : feed[i].task = t}
    IN  IF mine = {} THEN MappingGet(data_source_mapping, tasks[t].config_id)
        ELSE feed[CHOOSE i \in mine : \A j \in mine : i <= j].data_type

\* data_source_mapping.read().await.get(&config_id).cloned(), evaluated for
\* the message just received
DeclaredType(t) == MappingGet(data_source_mapping, tasks[t].config_id)

\* the KafkaMessage task t builds for message m, with the number of
\* receivers send() finds (send returns Err when there is none)
KafkaMessage(t, m) ==
    [task |-> t, config_id |-> tasks[t].config_id, topic |-> Topic(tasks[t].config_id),
     partition |-> m.partition, offset |-> m.offset, payload |-> m.doc,
     data_type |-> m.data_type, rx |-> Cardinality({r \in DOMAIN receivers : receivers[r].open})]

\* send() only for a message that classifies
SendIfClassified(t, m) ==
    feed' = IF Classify(m.data_type, m.doc) \in DataTypes THEN Append(feed, KafkaMessage(t, m)) ELSE feed

\* message_sender.send(kafka_message.clone()): never waits; an Err (no
\* receiver) is logged at debug level
Send(t, m) == feed' = Append(feed, KafkaMessage(t, m))

\* recv() handing the message over only when every receiver has room
WRecvOkBackpressure(t) ==
    /\ CanRun(t) /\ tasks[t].pc = "recv" /\ ~tasks[t].aborted
    /\ \A r \in DOMAIN receivers : receivers[r].open => Len(feed) - receivers[r].next + 1 < FeedCapacity
    /\ \E off \in ({delivered + 1} \cap (1..MaxMsgs)) \cup Redelivered(t) :
          /\ \E doc \in PayloadsOf(off) :
                LET m == [offset |-> off, partition |-> 0, doc |-> doc,
                          data_type |-> DeclaredType(t)]
                IN  /\ SetTask(t, [tasks[t] EXCEPT !.pc = "process", !.errs = 0, !.msg = m, !.class = "none"])
                    /\ Send(t, m)
          /\ delivered' = IF off > delivered THEN off ELSE delivered
    /\ UNCHANGED <<graph, related, registry, data_source_mapping, consumers, result, clickhouse, recv_errors, receivers, calls>>

\* recv() returns a message with a payload: build the KafkaMessage (the
\* declared type is read from the mapping here), send it on the feed
WRecvOk(t) ==
    /\ CanRun(t) /\ tasks[t].pc = "recv" /\ ~tasks[t].aborted
    /\ \E off \in ({delivered + 1} \cap (1..MaxMsgs)) \cup Redelivered(t) :
          /\ \E doc \in PayloadsOf(off) :
                LET m == [offset |-> off, partition |-> 0, doc |-> doc,
                          data_type |-> DeclaredType(t)]
                IN  /\ SetTask(t, [tasks[t] EXCEPT !.pc = "process", !.errs = 0, !.msg = m, !.class = "none"])
                    /\ Send(t, m)
          /\ delivered' = IF off > delivered THEN off ELSE delivered
    /\ UNCHANGED <<graph, related, registry, data_source_mapping, consumers, result, clickhouse, recv_errors, receivers, calls>>

\* the bytes of a payload: those of a document, with no invalid UTF-8
\* sequence, with one inside a string value, or with one between the tokens
InvalidAt == {"nowhere", "value", "syntax"}
PayloadBytes == [doc : WorkerDocs, invalid : InvalidAt]

\* String::from_utf8_lossy(bytes).into_owned(): every invalid sequence
\* becomes U+FFFD. Inside a string value the text stays the JSON document
\* it was, with another string; between the tokens it is JSON no more.
from_utf8_lossy(bytes) ==
    IF bytes.invalid = "nowhere" THEN bytes.doc
    ELSE IF bytes.invalid = "value"
         THEN [json |-> bytes.doc.json, fld |-> bytes.doc.fld, restEdr |-> bytes.doc.restEdr,
               restNgav |-> bytes.doc.restNgav, replaced |-> TRUE]
         ELSE [json |-> FALSE, fld |-> NotJson.fld, restEdr |-> FALSE, restNgav |-> FALSE, replaced |-> TRUE]

\* a decoding that gives up on invalid bytes: the message is skipped
WRecvBytesStrict(t) ==
    /\ CanRun(t) /\ tasks[t].pc = "recv" /\ ~tasks[t].aborted
    /\ delivered < MaxMsgs
    /\ delivered' = delivered + 1
    /\ \E bytes \in PayloadBytes :
          IF bytes.invalid # "nowhere"
          THEN SetTask(t, [tasks[t] EXCEPT !.errs = 0]) /\ UNCHANGED feed
          ELSE LET m == [offset |-> delivered + 1, partition |-> 0, doc |-> bytes.doc, data_type |-> DeclaredType(t)]
               IN  /\ SetTask(t, [tasks[t] EXCEPT !.pc = "process", !.errs = 0, !.msg = m, !.class = "none"])
                   /\ Send(t, m)
    /\ UNCHANGED <<graph, related, registry, data_source_mapping, consumers, result, clickhouse, recv_errors, receivers, calls>>

\* recv() returns a message whose payload is Some(bytes): the bytes are
\* decoded, a warning is logged when the text holds U+FFFD, and the message
\* goes the way of every message
WRecvBytes(t) ==
    /\ CanRun(t) /\ tasks[t].pc = "recv" /\ ~tasks[t].aborted
    /\ delivered < MaxMsgs
    /\ delivered' = delivered + 1
    /\ \E bytes \in PayloadBytes :
          LET m == [offset |-> delivered + 1, partition |-> 0, doc |-> from_utf8_lossy(bytes), data_type |-> DeclaredType(t)]
          IN  /\ SetTask(t, [tasks[t] EXCEPT !.pc = "process", !.errs = 0, !.msg = m, !.class = "none"])
              /\ Send(t, m)
    /\ UNCHANGED <<graph, related, registry, data_source_mapping, consumers, result, clickhouse, recv_errors, receivers, calls>>

\* recv() returns a message without payload: warn and continue
WRecvEmpty(t) ==
    /\ CanRun(t) /\ tasks[t].pc = "recv" /\ ~tasks[t].aborted
    /\ delivered < MaxMsgs
    /\ delivered' = delivered + 1
    /\ SetTask(t, [tasks[t] EXCEPT !.errs = 0])
    /\ UNCHANGED <<graph, related, registry, data_source_mapping, consumers, result, clickhouse, feed, recv_errors, receivers, calls>>

\* the Err arm leaving the loop
WRecvErrExit(t) ==
    /\ CanRun(t) /\ tasks[t].pc = "recv" /\ ~tasks[t].aborted
    /\ recv_errors < MaxErrs
    /\ recv_errors' = recv_errors + 1
    /\ SetTask(t, [tasks[t] EXCEPT !.pc = "done", !.errs = @ + 1])
    /\ UNCHANGED <<graph, related, registry, data_source_mapping, consumers, result, clickhouse, feed, delivered, receivers, calls>>

\* recv() returns Err: log, then sleep one second
WRecvErr(t) ==
    /\ CanRun(t) /\ tasks[t].pc = "recv" /\ ~tasks[t].aborted
    /\ recv_errors < MaxErrs
    /\ recv_errors' = recv_errors + 1
    /\ SetTask(t, [tasks[t] EXCEPT !.pc = "backoff", !.errs = @ + 1])
    /\ UNCHANGED <<graph, related, registry, data_source_mapping, consumers, result, clickhouse, feed, delivered, receivers, calls>>

\* the sleep ends: next iteration of the loop
WBackoff(t) ==
    /\ CanRun(t) /\ tasks[t].pc = "backoff" /\ ~tasks[t].aborted
    /\ SetTask(t, [tasks[t] EXCEPT !.pc = "recv"])
    /\ UNCHANGED <<graph, related, registry, data_source_mapping, consumers, result, clickhouse, feed, delivered, recv_errors, receivers, calls>>

\* process_message up to the first insert: parse, classify; no await, so an
\* abort requested meanwhile does not stop it
\* process_message handing the type-specific record first
WProcessSkipCommon(t) ==
    /\ CanRun(t) /\ tasks[t].pc = "process"
    /\ LET c == Classify(tasks[t].msg.data_type, tasks[t].msg.doc)
       IN  SetTask(t, [tasks[t] EXCEPT !.class = c, !.pc = IF c \in DataTypes THEN "insert_type" ELSE "recv"])
    /\ UNCHANGED <<graph, related, registry, data_source_mapping, consumers, result, clickhouse, feed, delivered, recv_errors, receivers, calls>>
\* process_message that is called again on the message when it returns Err
WProcessRetry(t) ==
    /\ CanRun(t) /\ tasks[t].pc = "process"
    /\ LET c == Classify(tasks[t].msg.data_type, tasks[t].msg.doc)
       IN  SetTask(t, [tasks[t] EXCEPT !.class = c, !.pc = IF c \in DataTypes THEN "insert_common" ELSE IF c = "error" THEN "process" ELSE "recv"])
    /\ UNCHANGED <<graph, related, registry, data_source_mapping, consumers, result, clickhouse, feed, delivered, recv_errors, receivers, calls>>
WProcess(t) ==
    /\ CanRun(t) /\ tasks[t].pc = "process"
    /\ LET c == Classify(tasks[t].msg.data_type, tasks[t].msg.doc)
       IN  SetTask(t, [tasks[t] EXCEPT !.class = c, !.pc = IF c \in DataTypes THEN "insert_common" ELSE "recv"])
    /\ UNCHANGED <<graph, related, registry, data_source_mapping, consumers, result, clickhouse, feed, delivered, recv_errors, receivers, calls>>

Insert(t, table, ok) ==
    [table |-> table, task |-> t, config_id |-> tasks[t].config_id, offset |-> tasks[t].msg.offset, ok |-> ok,
     row |-> RowOf(table, KafkaMessage(t, tasks[t].msg))]

\* an insert that is tried again when it fails
WInsertCommonRetry(t) ==
    /\ CanRun(t) /\ tasks[t].pc = "insert_common" /\ ~tasks[t].aborted
    /\ \E ok \in BOOLEAN :
          /\ clickhouse' = Append(clickhouse, Insert(t, "common", ok))
          /\ SetTask(t, [tasks[t] EXCEPT !.pc = IF ok THEN "insert_type" ELSE "insert_common"])
    /\ UNCHANGED <<graph, related, registry, data_source_mapping, consumers, result, feed, delivered, recv_errors, receivers, calls>>

\* an insert whose error is logged and not propagated
WInsertCommonIgnoreErr(t) ==
    /\ CanRun(t) /\ tasks[t].pc = "insert_common" /\ ~tasks[t].aborted
    /\ \E ok \in BOOLEAN :
          /\ clickhouse' = Append(clickhouse, Insert(t, "common", ok))
          /\ SetTask(t, [tasks[t] EXCEPT !.pc = "insert_type"])
    /\ UNCHANGED <<graph, related, registry, data_source_mapping, consumers, result, feed, delivered, recv_errors, receivers, calls>>

\* insert_common_alert returns; on Err the ? leaves store_*_alert
WInsertCommon(t) ==
    /\ CanRun(t) /\ tasks[t].pc = "insert_common" /\ ~tasks[t].aborted
    /\ \E ok \in BOOLEAN :
          /\ clickhouse' = Append(clickhouse, Insert(t, "common", ok))
          /\ SetTask(t, [tasks[t] EXCEPT !.pc = IF ok THEN "insert_type" ELSE "recv"])
    /\ UNCHANGED <<graph, related, registry, data_source_mapping, consumers, result, feed, delivered, recv_errors, receivers, calls>>

\* insert_edr_alert / insert_ngav_alert returns
WInsertType(t) ==
    /\ CanRun(t) /\ tasks[t].pc = "insert_type" /\ ~tasks[t].aborted
    /\ \E ok \in BOOLEAN :
          /\ clickhouse' = Append(clickhouse, Insert(t, tasks[t].class, ok))
          /\ SetTask(t, [tasks[t] EXCEPT !.pc = "recv"])
    /\ UNCHANGED <<graph, related, registry, data_source_mapping, consumers, result, feed, delivered, recv_errors, receivers, calls>>

\* JoinHandle::abort takes effect where the task waits
WCancelled(t) ==
    /\ CanRun(t) /\ tasks[t].aborted /\ tasks[t].pc \in AwaitPcs
    /\ SetTask(t, [tasks[t] EXCEPT !.pc = "done"])
    /\ UNCHANGED <<graph, related, registry, data_source_mapping, consumers, result, clickhouse, feed, delivered, recv_errors, receivers, calls>>

\* the steps a task takes without the broker
WorkerInternal(t) == WBackoff(t) \/ WProcess(t) \/ WInsertCommon(t) \/ WInsertType(t) \/ WCancelled(t)

WorkerStep(t) == WRecvOk(t) \/ WRecvEmpty(t) \/ WRecvErr(t) \/ WorkerInternal(t)

TaskIds == 1..MaxWorkers

\* --------------------------------------------------------------- live feed
\* a receiver reads the sends in order: next is the index in feed of the
\* value it reads next, got the indices it has read, lagged the number it
\* was told it missed

\* a channel that holds one value more than its capacity
OldestOneMore == IF Len(feed) > FeedCapacity + 1 THEN Len(feed) - FeedCapacity ELSE 1

\* the index in feed of the oldest value the channel still holds: a send on
\* a full channel releases the oldest value
Oldest == IF Len(feed) > FeedCapacity THEN Len(feed) - FeedCapacity + 1 ELSE 1

\* get_message_receiver(): subscribe(); the receiver sees what is sent from
\* now on
Subscribe ==
    /\ Cardinality(DOMAIN receivers) < MaxReceivers
    /\ receivers' = Put(receivers, Cardinality(DOMAIN receivers) + 1,
                        [from |-> Len(feed) + 1, next |-> Len(feed) + 1, got |-> <<>>, lagged |-> 0, open |-> TRUE])
    /\ UNCHANGED <<graph, related, registry, data_source_mapping, consumers, tasks, result, clickhouse, feed, delivered, recv_errors, calls>>

\* receiver.recv() returns: Err(Lagged(n)) when the value to read has been
\* released (the receiver moves to the oldest value held), the value otherwise
RxRecv(r) ==
    /\ r \in DOMAIN receivers /\ receivers[r].open
    /\ receivers[r].next <= Len(feed)
    /\ receivers' = IF receivers[r].next < Oldest
                    THEN [receivers EXCEPT ![r].lagged = @ + (Oldest - receivers[r].next), ![r].next = Oldest]
                    ELSE [receivers EXCEPT ![r].got = Append(@, receivers[r].next), ![r].next = @ + 1]
    /\ UNCHANGED <<graph, related, registry, data_source_mapping, consumers, tasks, result, clickhouse, feed, delivered, recv_errors, calls>>

\* the handler that subscribed returns: the receiver is dropped
RxDrop(r) ==
    /\ r \in DOMAIN receivers /\ receivers[r].open
    /\ receivers' = [receivers EXCEPT ![r].open = FALSE]
    /\ UNCHANGED <<graph, related, registry, data_source_mapping, consumers, tasks, result, clickhouse, feed, delivered, recv_errors, calls>>

ReceiverIds == 1..MaxReceivers

\* ------------------------------------------ administrative calls, stepwise
\* start(), stop() and refresh_consumers() called from concurrent handlers:
\* a call is split where it awaits (a registry read, a lock), and what it
\* does under a lock is one step

Ops == {"start", "stop", "refresh"}

\* a call as its handler begins it
NewCall(op) ==
    [op |-> op, pc |-> IF op = "start" THEN "read_active" ELSE "stop",
     rows |-> {}, configs |-> <<>>, handle |-> 0, ok |-> TRUE, err |-> "none",
     alone |-> \A c \in DOMAIN calls : calls[c].pc = "done",
     tracked_at |-> DOMAIN consumers, tasks_at |-> Len(tasks),
     holds |-> {}, seen |-> {}, pending |-> <<>>]

\* the for loop of start() at the head of call.configs: the loop ends, or
\* start_consumer fails on create/subscribe, or it spawns the task and goes
\* to wait for the write lock of the collection
SpawnHead(call, tsk) ==
    IF call.configs = <<>> THEN [call |-> [call EXCEPT !.pc = "done"], tasks |-> tsk]
    ELSE IF Head(call.configs) \in bad_config
         THEN [call |-> [call EXCEPT !.pc = "done", !.ok = FALSE, !.err = "consumer"], tasks |-> tsk]
         ELSE [call |-> [call EXCEPT !.pc = "insert", !.handle = Len(tsk) + 1],
               tasks |-> Append(tsk, NewTask(Head(call.configs)))]

\* a handler calls start(), stop() or refresh_consumers()
CallBegin ==
    /\ Cardinality(DOMAIN calls) < MaxCalls
    /\ \E op \in Ops :
          calls' = Put([c \in DOMAIN calls |-> [calls[c] EXCEPT !.alone = @ /\ calls[c].pc = "done"]],
                       Cardinality(DOMAIN calls) + 1, NewCall(op))
    /\ UNCHANGED <<graph, related, registry, data_source_mapping, consumers, tasks, result, clickhouse, feed, delivered, recv_errors, receivers>>

\* stop() that aborts the tasks and leaves them in the collection
CallStopKeep(c) ==
    /\ c \in DOMAIN calls /\ calls[c].pc = "stop"
    /\ consumers' = consumers
    /\ tasks' = stop(Cur).tasks
    /\ calls' = [calls EXCEPT ![c].pc = IF calls[c].op = "stop" THEN "done" ELSE "read_mapping", ![c].holds = {}]
    /\ UNCHANGED <<graph, related, registry, data_source_mapping, result, clickhouse, feed, delivered, recv_errors, receivers>>
\* stop(): the drain and the aborts, after which the write guard is dropped
CallStop(c) ==
    /\ c \in DOMAIN calls /\ calls[c].pc = "stop"
    /\ consumers' = stop(Cur).consumers
    /\ tasks' = stop(Cur).tasks
    /\ calls' = [calls EXCEPT ![c].pc = IF calls[c].op = "stop" THEN "done" ELSE "read_mapping", ![c].holds = {}]
    /\ UNCHANGED <<graph, related, registry, data_source_mapping, result, clickhouse, feed, delivered, recv_errors, receivers>>

\* refresh_data_source_mapping(): the registry read, before the lock
CallReadMapping(c) ==
    /\ c \in DOMAIN calls /\ calls[c].pc = "read_mapping"
    /\ \E dbOk \in BOOLEAN :
          calls' = [calls EXCEPT ![c] = IF dbOk THEN [@ EXCEPT !.rows = data_source_configs, !.pc = "write_mapping"]
                                         ELSE [@ EXCEPT !.pc = "done", !.ok = FALSE, !.err = "registry"]]
    /\ UNCHANGED <<graph, related, registry, data_source_mapping, consumers, tasks, result, clickhouse, feed, delivered, recv_errors, receivers>>

\* refresh_data_source_mapping(): clear and refill, after which the write
\* guard is dropped
CallWriteMapping(c) ==
    /\ c \in DOMAIN calls /\ calls[c].pc = "write_mapping"
    /\ data_source_mapping' = MappingOf(calls[c].rows)
    /\ calls' = [calls EXCEPT ![c].pc = "read_active", ![c].holds = {}]
    /\ UNCHANGED <<graph, related, registry, consumers, tasks, result, clickhouse, feed, delivered, recv_errors, receivers>>

\* the rows in the order of the query: ORDER BY data_type, name
RowOrder(rows) ==
    LET ids(data_type) == SelectSeq(SourceOrder, LAMBDA id : <<data_type, id>> \in rows)
    IN  [i \in 1..Len(ids("edr")) |-> <<"edr", ids("edr")[i]>>] \o [i \in 1..Len(ids("ngav")) |-> <<"ngav", ids("ngav")[i]>>]

\* mapping.clear() that lets go of the write guard
CallClearMappingUnlocked(c) ==
    /\ c \in DOMAIN calls /\ calls[c].pc = "write_mapping"
    /\ data_source_mapping' = EmptyMap
    /\ calls' = [calls EXCEPT ![c].pc = "fill_mapping", ![c].pending = RowOrder(calls[c].rows), ![c].holds = {}]
    /\ UNCHANGED <<graph, related, registry, consumers, tasks, result, clickhouse, feed, delivered, recv_errors, receivers>>

\* refresh_data_source_mapping(), the write taken apart: mapping.clear()
\* under the write guard
CallClearMapping(c) ==
    /\ c \in DOMAIN calls /\ calls[c].pc = "write_mapping"
    /\ data_source_mapping' = EmptyMap
    /\ calls' = [calls EXCEPT ![c].pc = "fill_mapping", ![c].pending = RowOrder(calls[c].rows)]
    /\ UNCHANGED <<graph, related, registry, consumers, tasks, result, clickhouse, feed, delivered, recv_errors, receivers>>

\* one mapping.insert of the loop, or its end, where the function returns
\* and the write guard is dropped
CallFillMapping(c) ==
    /\ c \in DOMAIN calls /\ calls[c].pc = "fill_mapping"
    /\ IF calls[c].pending = <<>>
       THEN /\ calls' = [calls EXCEPT ![c].pc = "read_active", ![c].holds = {}]
            /\ UNCHANGED data_source_mapping
       ELSE /\ data_source_mapping' = Put(data_source_mapping, Head(calls[c].pending)[2], Head(calls[c].pending)[1])
            /\ calls' = [calls EXCEPT ![c].pending = Tail(@)]
    /\ UNCHANGED <<graph, related, registry, consumers, tasks, result, clickhouse, feed, delivered, recv_errors, receivers>>

\* start() that returns at once when the collection is not empty
CallReadActiveOnce(c) ==
    /\ c \in DOMAIN calls /\ calls[c].pc = "read_active"
    /\ \E dbOk \in BOOLEAN :
          LET r == IF ~dbOk THEN [call |-> [calls[c] EXCEPT !.pc = "done", !.ok = FALSE, !.err = "registry"], tasks |-> tasks]
                   ELSE SpawnHead([calls[c] EXCEPT !.configs = IF DOMAIN consumers = {} THEN get_active_kafka_configs ELSE <<>>], tasks)
          IN  /\ calls' = [calls EXCEPT ![c] = r.call]
              /\ tasks' = r.tasks
    /\ UNCHANGED <<graph, related, registry, data_source_mapping, consumers, result, clickhouse, feed, delivered, recv_errors, receivers>>

\* start(): the registry read, then the first start_consumer up to its insert
CallReadActive(c) ==
    /\ c \in DOMAIN calls /\ calls[c].pc = "read_active"
    /\ \E dbOk \in BOOLEAN :
          LET r == IF ~dbOk THEN [call |-> [calls[c] EXCEPT !.pc = "done", !.ok = FALSE, !.err = "registry"], tasks |-> tasks]
                   ELSE SpawnHead([calls[c] EXCEPT !.configs = get_active_kafka_configs], tasks)
          IN  /\ calls' = [calls EXCEPT ![c] = r.call]
              /\ tasks' = r.tasks
    /\ UNCHANGED <<graph, related, registry, data_source_mapping, consumers, result, clickhouse, feed, delivered, recv_errors, receivers>>

\* start_consumer: the insert under the write lock, then the next
\* start_consumer up to its insert
CallInsert(c) ==
    /\ c \in DOMAIN calls /\ calls[c].pc = "insert"
    /\ LET id == Head(calls[c].configs)
           r == SpawnHead([calls[c] EXCEPT !.configs = Tail(@), !.holds = {}], tasks)
       IN  /\ consumers' = Put(consumers, id, [handle |-> calls[c].handle, config_id |-> id, topic |-> Topic(id)])
           /\ calls' = [calls EXCEPT ![c] = r.call]
           /\ tasks' = r.tasks
    /\ UNCHANGED <<graph, related, registry, data_source_mapping, result, clickhouse, feed, delivered, recv_errors, receivers>>

CallIds == 1..MaxCalls

\* ------------------------------------------------------------------- specs
NoResult == [op |-> "new", ok |-> TRUE, err |-> "none", active |-> {}, tracked_before |-> {}, tasks_before |-> 0]

\* ConsumerService::new over any registry content
Init ==
    /\ is_active \in SUBSET Sources
    /\ bad_config \in {{}, {"S2"}}
    /\ data_source_configs \in {{}, {<<"edr", "S1">>, <<"ngav", "S2">>}}
    /\ data_source_mapping = MappingOf(data_source_configs)
    /\ consumers = EmptyMap
    /\ tasks = <<>>
    /\ result = NoResult
    /\ clickhouse = <<>>
    /\ feed = <<>>
    /\ delivered = 0
    /\ recv_errors = 0
    /\ receivers = EmptyMap
    /\ calls = EmptyMap
    /\ graph = NoGraph
    /\ related = NoQuery

\* the administrative operations over a registry that is edited meanwhile
Next ==
    \/ Start
    \/ Stop
    \/ RefreshConsumers
    \/ RefreshDataSourceMapping
    \/ ToggleKafkaConfigActive

Spec == Init /\ [][Next]_vars

\* ConsumerService::new over a registry of valid rows that is not edited
InitWork ==
    /\ is_active \in {{"S1"}, {"S1", "S2"}}
    /\ bad_config = {}
    /\ data_source_configs = {<<"edr", "S1">>}
    /\ data_source_mapping = MappingOf(data_source_configs)
    /\ consumers = EmptyMap
    /\ tasks = <<>>
    /\ result = NoResult
    /\ clickhouse = <<>>
    /\ feed = <<>>
    /\ delivered = 0
    /\ recv_errors = 0
    /\ receivers = EmptyMap
    /\ calls = EmptyMap
    /\ graph = NoGraph
    /\ related = NoQuery

\* the administrative operations and the steps of the spawned tasks, over
\* brokers that deliver every message once
NextWork ==
    \/ Start /\ Len(tasks') <= MaxWorkers
    \/ Stop
    \/ RefreshConsumers /\ Len(tasks') <= MaxWorkers
    \/ \E t \in TaskIds : WRecvOk(t) /\ delivered' > delivered
    \/ \E t \in TaskIds : WRecvEmpty(t)
    \/ \E t \in TaskIds : WRecvErr(t)
    \/ \E t \in TaskIds : WBackoff(t)
    \/ \E t \in TaskIds : WProcess(t)
    \/ \E t \in TaskIds : WInsertCommon(t)
    \/ \E t \in TaskIds : WInsertType(t)
    \/ \E t \in TaskIds : WCancelled(t)

SpecWork == InitWork /\ [][NextWork]_vars

\* the runtime schedules every task that can run; timers and inserts return
LiveWork == SpecWork /\ \A t \in TaskIds : WF_vars(WorkerInternal(t))

\* one tracked task that has just received a message: any payload, any
\* declared type of its source
InitClassify ==
    /\ is_active = {"S1"}
    /\ bad_config = {}
    /\ data_source_configs \in {{}, {<<"edr", "S1">>}, {<<"ngav", "S1">>}}
    /\ data_source_mapping = MappingOf(data_source_configs)
    /\ consumers = Put(EmptyMap, "S1", [handle |-> 1, config_id |-> "S1", topic |-> Topic("S1")])
    /\ \E doc \in AllDocs :
          tasks = <<[NewTask("S1") EXCEPT !.pc = "process",
                       !.msg = [offset |-> 1, partition |-> 0, doc |-> doc, data_type |-> MappingGet(data_source_mapping, "S1")]]>>
    /\ result = [NoResult EXCEPT !.op = "start", !.active = {"S1"}]
    /\ clickhouse = <<>>
    /\ receivers = EmptyMap
    /\ feed = <<KafkaMessage(1, tasks[1].msg)>>
    /\ delivered = 1
    /\ recv_errors = 0
    /\ calls = EmptyMap
    /\ graph = NoGraph
    /\ related = NoQuery

\* process_message on that message
NextClassify ==
    \/ WProcess(1)
    \/ WInsertCommon(1)
    \/ WInsertType(1)

SpecClassify == InitClassify /\ [][NextClassify]_vars

\* ConsumerService::new over a registry with one source, declared edr
InitFeed ==
    /\ is_active = {"S1"}
    /\ bad_config = {}
    /\ data_source_configs = {<<"edr", "S1">>}
    /\ data_source_mapping = MappingOf(data_source_configs)
    /\ consumers = EmptyMap
    /\ tasks = <<>>
    /\ result = NoResult
    /\ clickhouse = <<>>
    /\ feed = <<>>
    /\ delivered = 0
    /\ recv_errors = 0
    /\ receivers = EmptyMap
    /\ calls = EmptyMap
    /\ graph = NoGraph
    /\ related = NoQuery

\* the administrative operations, the tasks receiving messages that are
\* dropped as not JSON and that the broker may deliver again to a new
\* consumer, and the feed's receivers
NextFeed ==
    \/ Start /\ Len(tasks') <= MaxWorkers
    \/ Stop
    \/ RefreshConsumers /\ Len(tasks') <= MaxWorkers
    \/ \E t \in TaskIds : WRecvOk(t) /\ tasks'[t].msg.doc = NotJson
    \/ \E t \in TaskIds : WProcess(t)
    \/ \E t \in TaskIds : WCancelled(t)
    \/ Subscribe
    \/ \E r \in ReceiverIds : RxRecv(r)
    \/ \E r \in ReceiverIds : RxDrop(r)

SpecFeed == InitFeed /\ [][NextFeed]_vars

\* two tasks for the one source (start() called twice) storing EDR alerts,
\* and receivers that subscribe and never read
NextPublish ==
    \/ Start /\ Len(tasks') <= MaxWorkers
    \/ \E t \in TaskIds : WRecvOk(t) /\ tasks'[t].msg.doc = EdrDoc
    \/ \E t \in TaskIds : WProcess(t)
    \/ \E t \in TaskIds : WInsertCommon(t)
    \/ \E t \in TaskIds : WInsertType(t)
    \/ Subscribe

SpecPublish == InitFeed /\ [][NextPublish]_vars

\* one started source whose declared type is edited while its task runs
InitMapping ==
    /\ is_active = {"S1"}
    /\ bad_config = {}
    /\ data_source_configs = {<<"edr", "S1">>}
    /\ data_source_mapping = MappingOf(data_source_configs)
    /\ consumers = Put(EmptyMap, "S1", [handle |-> 1, config_id |-> "S1", topic |-> Topic("S1")])
    /\ tasks = <<NewTask("S1")>>
    /\ result = [NoResult EXCEPT !.op = "start", !.active = {"S1"}]
    /\ clickhouse = <<>>
    /\ feed = <<>>
    /\ delivered = 0
    /\ recv_errors = 0
    /\ receivers = EmptyMap
    /\ calls = EmptyMap
    /\ graph = NoGraph
    /\ related = NoQuery

NextMapping ==
    \/ SaveDataSourceConfig
    \/ RefreshDataSourceMapping
    \/ WRecvOk(1) /\ delivered' > delivered /\ tasks'[1].msg.doc \in {EdrDoc, NgavDoc}
    \/ WProcess(1)
    \/ WInsertCommon(1)
    \/ WInsertType(1)

SpecMapping == InitMapping /\ [][NextMapping]_vars
\* one task that has received an EDR alert, under each declared type
InitNormalize ==
    /\ is_active = {"S1"}
    /\ bad_config = {}
    /\ data_source_configs \in {{}, {<<"edr", "S1">>}, {<<"ngav", "S1">>}}
    /\ data_source_mapping = MappingOf(data_source_configs)
    /\ consumers = Put(EmptyMap, "S1", [handle |-> 1, config_id |-> "S1", topic |-> Topic("S1")])
    /\ \E doc \in EdrDocuments \cup TimestampDocuments, p \in Partitions :
          tasks = <<[NewTask("S1") EXCEPT !.pc = "process",
                       !.msg = [offset |-> 1, partition |-> p, doc |-> doc, data_type |-> MappingGet(data_source_mapping, "S1")]]>>
    /\ result = [NoResult EXCEPT !.op = "start", !.active = {"S1"}]
    /\ clickhouse = <<>>
    /\ receivers = EmptyMap
    /\ feed = <<KafkaMessage(1, tasks[1].msg)>>
    /\ delivered = 1
    /\ recv_errors = 0
    /\ calls = EmptyMap
    /\ graph = NoGraph
    /\ related = NoQuery

\* process_message and store_edr_alert on that alert
NextNormalize ==
    \/ WProcess(1)
    \/ WInsertCommon(1)
    \/ WInsertType(1)

SpecNormalize == InitNormalize /\ [][NextNormalize]_vars
\* a caller of the sink hands it one of the CommonAlert values
InsertCommonAlert ==
    /\ Len(clickhouse) < MaxInserts
    /\ \E alert \in CommonAlerts, ok \in BOOLEAN :
          clickhouse' = Append(clickhouse, [table |-> "common", task |-> 0, config_id |-> "none", offset |-> 0, ok |-> ok,
                                            row |-> insert_common_alert(alert), alert |-> alert])
    /\ UNCHANGED <<graph, related, registry, data_source_mapping, consumers, tasks, result, feed, delivered, recv_errors, receivers, calls>>

\* one task of a source with no declared type, with edr or with ngav,
\* receiving payloads as bytes
InitDecode ==
    /\ is_active = {"S1"}
    /\ bad_config = {}
    /\ data_source_configs \in {{}, {<<"edr", "S1">>}, {<<"ngav", "S1">>}}
    /\ data_source_mapping = MappingOf(data_source_configs)
    /\ consumers = Put(EmptyMap, "S1", [handle |-> 1, config_id |-> "S1", topic |-> Topic("S1")])
    /\ tasks = <<NewTask("S1")>>
    /\ result = [NoResult EXCEPT !.op = "start", !.active = {"S1"}]
    /\ clickhouse = <<>>
    /\ feed = <<>>
    /\ delivered = 0
    /\ recv_errors = 0
    /\ receivers = EmptyMap
    /\ calls = EmptyMap
    /\ graph = NoGraph
    /\ related = NoQuery

NextDecode ==
    \/ WRecvBytes(1)
    \/ WProcess(1)
    \/ WInsertCommon(1)
    \/ WInsertType(1)

SpecDecode == InitDecode /\ [][NextDecode]_vars

\* the sink alone, before any source is started
InitSink ==
    /\ is_active = {}
    /\ bad_config = {}
    /\ data_source_configs = {}
    /\ data_source_mapping = EmptyMap
    /\ consumers = EmptyMap
    /\ tasks = <<>>
    /\ result = NoResult
    /\ clickhouse = <<>>
    /\ feed = <<>>
    /\ delivered = 0
    /\ recv_errors = 0
    /\ receivers = EmptyMap
    /\ calls = EmptyMap
    /\ graph = NoGraph
    /\ related = NoQuery

NextSink == InsertCommonAlert

SpecSink == InitSink /\ [][NextSink]_vars

\* the service as the web server leaves it at startup: new(), then a
\* successful start()
Started ==
    start([consumers |-> EmptyMap, tasks |-> <<>>, mapping |-> MappingOf(data_source_configs), ok |-> TRUE, err |-> "none"], TRUE)

\* ---------------------------------------------------------------- locks
\* the calls that hold the write guard of a lock, the calls that hold a
\* read guard of it and the tasks that do (a task only ever locks the
\* mapping)
Writers(lock) == {c \in DOMAIN calls : <<lock, "write">> \in calls[c].holds}

ReaderCalls(lock) == {c \in DOMAIN calls : <<lock, "read">> \in calls[c].holds}

ReaderTasks(lock) == IF lock = "mapping" THEN {t \in DOMAIN tasks : tasks[t].guard} ELSE {}

\* tokio::sync::RwLock: read() is granted when no writer holds the lock,
\* write() when nobody holds it
CanRead(lock) == Writers(lock) = {}

CanWrite(lock) == Writers(lock) = {} /\ ReaderCalls(lock) = {} /\ ReaderTasks(lock) = {}

\* the steps of a call that run under a write guard, and the lock of each
LockedPcs == {"stop", "write_mapping", "insert"}

LockOf(pc) == IF pc = "write_mapping" THEN "mapping" ELSE "consumers"

\* write().await returns the guard to stop(), refresh_data_source_mapping()
\* or start_consumer()
CallLock(c) ==
    /\ c \in DOMAIN calls /\ calls[c].pc \in LockedPcs /\ calls[c].holds = {}
    /\ CanWrite(LockOf(calls[c].pc))
    /\ calls' = [calls EXCEPT ![c].holds = {<<LockOf(calls[c].pc), "write">>}]
    /\ UNCHANGED <<graph, related, registry, data_source_mapping, consumers, tasks, result, clickhouse, feed, delivered, recv_errors, receivers>>

\* a handler calls get_consumer_status()
StatusBegin ==
    /\ Cardinality(DOMAIN calls) < MaxCalls
    /\ calls' = Put(calls, Cardinality(DOMAIN calls) + 1,
                    [NewCall("stop") EXCEPT !.op = "status", !.pc = "lock_consumers", !.alone = FALSE])
    /\ UNCHANGED <<graph, related, registry, data_source_mapping, consumers, tasks, result, clickhouse, feed, delivered, recv_errors, receivers>>

\* get_consumer_status: consumers.read().await returns the guard
StatusLockConsumers(c) ==
    /\ c \in DOMAIN calls /\ calls[c].pc = "lock_consumers"
    /\ CanRead("consumers")
    /\ calls' = [calls EXCEPT ![c].pc = "lock_mapping", ![c].holds = {<<"consumers", "read">>}]
    /\ UNCHANGED <<graph, related, registry, data_source_mapping, consumers, tasks, result, clickhouse, feed, delivered, recv_errors, receivers>>

\* get_consumer_status: data_source_mapping.read().await returns the guard
StatusLockMapping(c) ==
    /\ c \in DOMAIN calls /\ calls[c].pc = "lock_mapping"
    /\ CanRead("mapping")
    /\ calls' = [calls EXCEPT ![c].pc = "build", ![c].holds = @ \cup {<<"mapping", "read">>}]
    /\ UNCHANGED <<graph, related, registry, data_source_mapping, consumers, tasks, result, clickhouse, feed, delivered, recv_errors, receivers>>

\* get_consumer_status: the map is built and returned, the guards dropped
StatusBuild(c) ==
    /\ c \in DOMAIN calls /\ calls[c].pc = "build"
    /\ calls' = [calls EXCEPT ![c].pc = "done", ![c].seen = get_consumer_status, ![c].holds = {}]
    /\ UNCHANGED <<graph, related, registry, data_source_mapping, consumers, tasks, result, clickhouse, feed, delivered, recv_errors, receivers>>

\* the task's consumer.recv() returns a message with a payload; the task
\* goes on to data_source_mapping.read().await
WRecvMsg(t) ==
    /\ CanRun(t) /\ tasks[t].pc = "recv" /\ ~tasks[t].aborted
    /\ delivered < MaxMsgs
    /\ delivered' = delivered + 1
    /\ SetTask(t, [tasks[t] EXCEPT !.pc = "lock_mapping", !.errs = 0, !.class = "none",
                                   !.msg = [offset |-> delivered + 1, partition |-> 0, doc |-> EdrDoc, data_type |-> "none"]])
    /\ UNCHANGED <<graph, related, registry, data_source_mapping, consumers, result, clickhouse, feed, recv_errors, receivers, calls>>

\* data_source_mapping.read().await returns the guard to the task
WLockMapping(t) ==
    /\ CanRun(t) /\ tasks[t].pc = "lock_mapping" /\ ~tasks[t].aborted
    /\ CanRead("mapping")
    /\ SetTask(t, [tasks[t] EXCEPT !.pc = "read_mapping", !.guard = TRUE])
    /\ UNCHANGED <<graph, related, registry, data_source_mapping, consumers, result, clickhouse, feed, delivered, recv_errors, receivers, calls>>

\* the task keeps the guard in a variable that lives as long as the loop body
WReadMappingKeep(t) ==
    /\ CanRun(t) /\ tasks[t].pc = "read_mapping"
    /\ LET m == [tasks[t].msg EXCEPT !.data_type = DeclaredType(t)]
       IN  /\ SetTask(t, [tasks[t] EXCEPT !.pc = "process", !.msg = m])
           /\ Send(t, m)
    /\ UNCHANGED <<graph, related, registry, data_source_mapping, consumers, result, clickhouse, delivered, recv_errors, receivers, calls>>
\* .get(&config_id).cloned(): the declared type is read and the guard, a
\* temporary of that statement, is dropped; then the send on the feed
WReadMapping(t) ==
    /\ CanRun(t) /\ tasks[t].pc = "read_mapping"
    /\ LET m == [tasks[t].msg EXCEPT !.data_type = DeclaredType(t)]
       IN  /\ SetTask(t, [tasks[t] EXCEPT !.pc = "process", !.msg = m, !.guard = FALSE])
           /\ Send(t, m)
    /\ UNCHANGED <<graph, related, registry, data_source_mapping, consumers, result, clickhouse, delivered, recv_errors, receivers, calls>>

\* the steps of a call
CallStep(c) ==
    \/ CallLock(c)
    \/ CallStop(c) /\ calls[c].holds # {}
    \/ CallReadMapping(c) /\ calls'[c].ok
    \/ CallWriteMapping(c) /\ calls[c].holds # {}
    \/ CallReadActive(c) /\ calls'[c].ok
    \/ CallInsert(c) /\ calls[c].holds # {}
    \/ StatusLockConsumers(c)
    \/ StatusLockMapping(c)
    \/ StatusBuild(c)

\* the handlers' calls with their lock acquisitions, beside the tasks, over
\* a registry whose reads succeed
InitLocks ==
    /\ is_active = {"S1"}
    /\ bad_config = {}
    /\ data_source_configs = {<<"edr", "S1">>}
    /\ data_source_mapping = MappingOf(data_source_configs)
    /\ consumers = Started.consumers
    /\ tasks = Started.tasks
    /\ result = [NoResult EXCEPT !.op = "start", !.active = is_active]
    /\ clickhouse = <<>>
    /\ feed = <<>>
    /\ delivered = 0
    /\ recv_errors = 0
    /\ receivers = EmptyMap
    /\ calls = EmptyMap
    /\ graph = NoGraph
    /\ related = NoQuery

NextLocks ==
    \/ CallBegin
    \/ StatusBegin
    \/ \E c \in CallIds : CallStep(c)
    \/ \E t \in TaskIds : WRecvMsg(t)
    \/ \E t \in TaskIds : WLockMapping(t)
    \/ \E t \in TaskIds : WReadMapping(t)
    \/ \E t \in TaskIds : WProcess(t)
    \/ \E t \in TaskIds : WInsertCommon(t) /\ clickhouse'[Len(clickhouse')].ok
    \/ \E t \in TaskIds : WInsertType(t) /\ clickhouse'[Len(clickhouse')].ok
    \/ \E t \in TaskIds : WCancelled(t)

SpecLocks == InitLocks /\ [][NextLocks]_vars

\* refresh_consumers() and get_consumer_status() calls over one or two
\* active sources, the tasks left out
InitStatus ==
    /\ is_active \in {{"S1"}, {"S1", "S2"}}
    /\ bad_config = {}
    /\ data_source_configs = {<<"edr", "S1">>}
    /\ data_source_mapping = MappingOf(data_source_configs)
    /\ consumers = Started.consumers
    /\ tasks = Started.tasks
    /\ result = [NoResult EXCEPT !.op = "start", !.active = is_active]
    /\ clickhouse = <<>>
    /\ feed = <<>>
    /\ delivered = 0
    /\ recv_errors = 0
    /\ receivers = EmptyMap
    /\ calls = EmptyMap
    /\ graph = NoGraph
    /\ related = NoQuery

NextStatus ==
    \/ CallBegin /\ calls'[Cardinality(DOMAIN calls')].op = "refresh"
    \/ StatusBegin
    \/ \E c \in CallIds : CallStep(c)

SpecStatus == InitStatus /\ [][NextStatus]_vars

\* the rows the registry holds where the mapping write is taken apart
TwoRows == {<<"edr", "S1">>, <<"ngav", "S2">>}

\* refresh_consumers() calls whose mapping write is taken step by step,
\* beside get_consumer_status() calls, the tasks' reads of the mapping and
\* edits of the registry
InitAtomic ==
    /\ is_active = {"S1"}
    /\ bad_config = {}
    /\ data_source_configs = TwoRows
    /\ data_source_mapping = MappingOf(data_source_configs)
    /\ consumers = Started.consumers
    /\ tasks = Started.tasks
    /\ result = [NoResult EXCEPT !.op = "start", !.active = is_active]
    /\ clickhouse = <<>>
    /\ feed = <<>>
    /\ delivered = 0
    /\ recv_errors = 0
    /\ receivers = EmptyMap
    /\ calls = EmptyMap
    /\ graph = NoGraph
    /\ related = NoQuery

NextAtomic ==
    \/ CallBegin /\ calls'[Cardinality(DOMAIN calls')].op = "refresh"
    \/ StatusBegin
    \/ SaveDataSourceConfig
    \/ \E c \in CallIds : CallLock(c)
    \/ \E c \in CallIds : CallStop(c) /\ calls[c].holds # {}
    \/ \E c \in CallIds : CallReadMapping(c) /\ calls'[c].ok
    \/ \E c \in CallIds : CallClearMapping(c) /\ calls[c].holds # {}
    \/ \E c \in CallIds : CallFillMapping(c) /\ calls[c].holds # {}
    \/ \E c \in CallIds : CallReadActive(c) /\ calls'[c].ok
    \/ \E c \in CallIds : CallInsert(c) /\ calls[c].holds # {}
    \/ \E c \in CallIds : StatusLockConsumers(c)
    \/ \E c \in CallIds : StatusLockMapping(c)
    \/ \E c \in CallIds : StatusBuild(c)
    \/ \E t \in TaskIds : WRecvMsg(t)
    \/ \E t \in TaskIds : WLockMapping(t)
    \/ \E t \in TaskIds : WReadMapping(t)
    \/ \E t \in TaskIds : WCancelled(t)

SpecAtomic == InitAtomic /\ [][NextAtomic]_vars

\* the runtime polls every call that can go on and the database answers;
\* the lock grants a waiting call its turn (the RwLock queues its waiters);
\* a task that holds a guard runs on to the end of the statement. Nothing
\* is assumed of a task that waits in recv, in a sleep or in an insert.
LiveLocks ==
    /\ SpecLocks
    /\ \A c \in CallIds : SF_vars(CallStep(c))
    /\ \A t \in TaskIds : WF_vars(WReadMapping(t))
InitConc ==
    /\ is_active \in {{"S1"}, {"S1", "S2"}}
    /\ bad_config = {}
    /\ data_source_configs = {<<"edr", "S1">>}
    /\ data_source_mapping = MappingOf(data_source_configs)
    /\ consumers = Started.consumers
    /\ tasks = Started.tasks
    /\ result = [NoResult EXCEPT !.op = "start", !.active = is_active]
    /\ clickhouse = <<>>
    /\ feed = <<>>
    /\ delivered = 0
    /\ recv_errors = 0
    /\ receivers = EmptyMap
    /\ calls = EmptyMap
    /\ graph = NoGraph
    /\ related = NoQuery

\* the calls of concurrent handlers, step by step, over a registry whose
\* reads succeed
NextConc ==
    \/ CallBegin
    \/ \E c \in CallIds : CallStop(c)
    \/ \E c \in CallIds : CallReadMapping(c) /\ calls'[c].ok
    \/ \E c \in CallIds : CallWriteMapping(c)
    \/ \E c \in CallIds : CallReadActive(c) /\ calls'[c].ok
    \/ \E c \in CallIds : CallInsert(c)

SpecConc == InitConc /\ [][NextConc]_vars

\* ------------------------------------------------------- InMemoryGraphDB
MaxAlerts == 4
MaxRelations == 4
MaxDepth == 2

\* the ids of the alerts, in the order add_alert is called with them
AlertOrder == [i \in 1..MaxAlerts |-> "alert" \o ToString(i)]
AlertIds == {AlertOrder[i] : i \in 1..MaxAlerts}

\* node_index_map.get(id) as an Option
HasAlert(g, id) == \E i \in DOMAIN g.nodes : g.nodes[i] = id

\* graph.neighbors(node): the targets of the node's outgoing edges, the
\* edge added last first
RECURSIVE neighbors_from(_, _, _)
neighbors_from(g, node, k) ==
    IF k = 0 THEN <<>>
    ELSE IF g.edges[k][1] = node THEN <<g.edges[k][2]>> \o neighbors_from(g, node, k - 1)
         ELSE neighbors_from(g, node, k - 1)

neighbors(g, node) == neighbors_from(g, node, Len(g.edges))

\* the while loop of find_related_alerts: queue.pop() takes the entry
\* pushed last; an entry deeper than max_depth or already visited is
\* skipped; else the node is marked, added to the result and its
\* neighbours not yet visited are pushed one level deeper
RECURSIVE Walk(_, _, _, _, _)
Walk(g, queue, visited, found, max_depth) ==
    IF queue = <<>> THEN found
    ELSE LET top == queue[Len(queue)]
             rest == SubSeq(queue, 1, Len(queue) - 1)
         IN  IF top.depth > max_depth \/ top.node \in visited
             THEN Walk(g, rest, visited, found, max_depth)
             ELSE LET seen == visited \cup {top.node}
                      next == SelectSeq(neighbors(g, top.node), LAMBDA n : n \notin seen)
                  IN  Walk(g, rest \o [i \in DOMAIN next |-> [node |-> next[i], depth |-> top.depth + 1]],
                           seen, Append(found, top.node), max_depth)

\* InMemoryGraphDB::find_related_alerts
find_related_alerts(g, alert_id, max_depth) ==
    IF HasAlert(g, alert_id)
    THEN Walk(g, <<[node |-> alert_id, depth |-> 0]>>, {}, <<>>, max_depth)
    ELSE <<>>

\* InMemoryGraphDB::add_alert, with an id the graph does not hold yet; the
\* result of a query made before belongs to the graph of before and is
\* let go
AddAlert ==
    /\ Len(graph.nodes) < MaxAlerts
    /\ graph' = [graph EXCEPT !.nodes = Append(@, AlertOrder[Len(graph.nodes) + 1])]
    /\ related' = NoQuery
    /\ UNCHANGED <<registry, data_source_mapping, consumers, tasks, result, clickhouse, feed, delivered, recv_errors, receivers, calls>>

\* InMemoryGraphDB::add_relation between two alerts: the edge is added
\* when both ids are known
AddRelation ==
    /\ Len(graph.edges) < MaxRelations
    /\ \E from_id \in AlertIds, to_id \in AlertIds :
          /\ from_id # to_id
          /\ HasAlert(graph, from_id) /\ HasAlert(graph, to_id)
          /\ graph' = [graph EXCEPT !.edges = Append(@, <<from_id, to_id>>)]
    /\ related' = NoQuery
    /\ UNCHANGED <<registry, data_source_mapping, consumers, tasks, result, clickhouse, feed, delivered, recv_errors, receivers, calls>>

\* a caller asks for the alerts related to an id, known or not
FindRelatedAlerts ==
    /\ \E alert_id \in AlertIds, max_depth \in 0..MaxDepth :
          related' = [alert_id |-> alert_id, max_depth |-> max_depth,
                      result |-> find_related_alerts(graph, alert_id, max_depth)]
    /\ UNCHANGED <<registry, data_source_mapping, consumers, tasks, result, clickhouse, feed, delivered, recv_errors, receivers, calls, graph>>

\* the graph database alone, as InMemoryGraphDB::new() leaves it
InitGraph ==
    /\ is_active = {}
    /\ bad_config = {}
    /\ data_source_configs = {}
    /\ data_source_mapping = EmptyMap
    /\ consumers = EmptyMap
    /\ tasks = <<>>
    /\ result = NoResult
    /\ clickhouse = <<>>
    /\ feed = <<>>
    /\ delivered = 0
    /\ recv_errors = 0
    /\ receivers = EmptyMap
    /\ calls = EmptyMap
    /\ graph = NoGraph
    /\ related = NoQuery

NextGraph == AddAlert \/ AddRelation \/ FindRelatedAlerts

SpecGraph == InitGraph /\ [][NextGraph]_vars

\* ------------------------------------------------------------------ claims
\* the handle is in the collection
IsTracked(t) == \E id \in DOMAIN consumers : consumers[id].handle = t

\* the message of task t has been handled to the end
Finished(t) == tasks[t].msg.offset > 0 /\ tasks[t].class # "none" /\ tasks[t].pc \in {"recv", "backoff"}

\* the tables task t has issued an insert into for its current message
Written(t) == {clickhouse[i].table : i \in {j \in DOMAIN clickhouse : clickhouse[j].task = t /\ clickhouse[j].offset = tasks[t].msg.offset}}

\* the inserts of task t for its current message that returned Ok
WrittenOk(t) == {clickhouse[i].table : i \in {j \in DOMAIN clickhouse : clickhouse[j].task = t /\ clickhouse[j].offset = tasks[t].msg.offset /\ clickhouse[j].ok}}

StatusView == {[config_id |-> e.config_id, topic |-> e.topic, status |-> e.status] : e \in get_consumer_status}

\* C1: after a successful start() on an idle service, status() has exactly
\* one entry per active source, with its id and topic and status running,
\* none for an inactive source, and each entry's task is running.
C1_StartTracksActive ==
    (result.op = "start" /\ result.ok /\ result.tracked_before = {}) =>
        /\ StatusView = {[config_id |-> id, topic |-> Topic(id), status |-> "running"] : id \in result.active}
        /\ Cardinality(get_consumer_status) = Cardinality(result.active)
        /\ \A id \in DOMAIN consumers : ~tasks[consumers[id].handle].aborted

C1_Witness ==
    /\ result.op = "start" /\ result.ok /\ result.tracked_before = {}
    /\ result.active = {"S1", "S3"}
    /\ Cardinality(get_consumer_status) = 2

SniffedType(doc) ==
    IF looks_like_edr(doc) /\ ParsesAsEdr(doc) THEN "edr"
    ELSE IF looks_like_ngav(doc) /\ ~looks_like_edr(doc) /\ ParsesAsNgav(doc) THEN "ngav"
    ELSE "other"

\* C3 as stated: with no declared type, a message with the four EDR markers
\* that is EDR-valid is classified EDR, one with the four NGAV markers (not
\* all four EDR markers) that is NGAV-valid is classified NGAV, and in both
\* cases the common and the type-specific record are handed to the sink.
C3_SniffingStoresBoth ==
    \A t \in DOMAIN tasks :
        LET m == tasks[t].msg
        IN  (tasks[t].class # "none" /\ m.data_type = "none" /\ SniffedType(m.doc) \in DataTypes) =>
                /\ tasks[t].class = SniffedType(m.doc)
                /\ Finished(t) => Written(t) = {"common", SniffedType(m.doc)}

\* C3 amended: ... is classified EDR resp. NGAV; the common record of that
\* type is handed to the sink, and the type-specific record of that type is
\* handed to the sink when the common insert succeeded (and only then).
C3_SniffingStores ==
    \A t \in DOMAIN tasks :
        LET m == tasks[t].msg
        IN  (tasks[t].class # "none" /\ m.data_type = "none" /\ SniffedType(m.doc) \in DataTypes) =>
                /\ tasks[t].class = SniffedType(m.doc)
                /\ Finished(t) =>
                      /\ "common" \in Written(t)
                      /\ Written(t) \subseteq {"common", SniffedType(m.doc)}
                      /\ (SniffedType(m.doc) \in Written(t)) <=> ("common" \in WrittenOk(t))

C3_Witness ==
    \E t \in DOMAIN tasks :
        /\ Finished(t) /\ tasks[t].msg.data_type = "none"
        /\ SniffedType(tasks[t].msg.doc) = "ngav" /\ tasks[t].class = "ngav"
        /\ Written(t) = {"common", "ngav"}

C6_StopCancelsAll ==
    result.op = "stop" =>
        /\ DOMAIN consumers = {}
        /\ \A t \in DOMAIN tasks : tasks[t].aborted

\* C7: a receive error never ends a task: a task leaves its loop only after
\* an abort, the backoff leads back to recv, and every tracked task is in
\* its loop and reported running by status().
C7_ErrorsNeverEndWorker ==
    /\ [][\A t \in TaskIds : (t \in DOMAIN tasks /\ tasks[t].pc # "done" /\ tasks'[t].pc = "done") => tasks[t].aborted]_vars
    /\ [][\A t \in TaskIds : (t \in DOMAIN tasks /\ tasks[t].pc = "backoff" /\ tasks'[t].pc # "backoff") => (tasks'[t].pc = "recv" \/ tasks[t].aborted)]_vars
    /\ [](\A id \in DOMAIN consumers :
            /\ tasks[consumers[id].handle].pc # "done"
            /\ [config_id |-> id, topic |-> Topic(id), status |-> "running"] \in StatusView)

C7_Witness ==
    \E t \in DOMAIN tasks :
        /\ IsTracked(t) /\ tasks[t].errs = 3 /\ tasks[t].pc = "recv"

\* C8 as stated: start() returns an error only when the registry read fails.
C8_StartFailsOnlyOnRegistry ==
    (result.op = "start" /\ ~result.ok) => result.err = "registry"

\* C9 as stated: a registry read failure in start() or refresh() is
\* returned, no task is spawned, and after a failed refresh() no task is
\* tracked or running.
C9_RegistryFailure ==
    (result.op \in {"start", "refresh"} /\ result.err = "registry") =>
        /\ ~result.ok
        /\ Len(tasks) = result.tasks_before
        /\ result.op = "refresh" => (DOMAIN consumers = {} /\ \A t \in DOMAIN tasks : tasks[t].aborted)

\* C10: a task that has received a message finishes handling it (or is
\* aborted) whatever the other tasks do, and a step of one task changes no
\* other task.
C10_Isolation ==
    /\ \A t \in TaskIds : (t \in DOMAIN tasks /\ tasks[t].pc \in {"process", "insert_common", "insert_type"}) ~> (t \in DOMAIN tasks /\ tasks[t].pc \in {"recv", "done"})
    /\ [][\A t \in TaskIds : WorkerStep(t) => \A u \in DOMAIN tasks \ {t} : tasks'[u] = tasks[u]]_vars

C10_Witness ==
    \E t \in DOMAIN tasks, u \in DOMAIN tasks :
        /\ tasks[t].config_id # tasks[u].config_id
        /\ tasks[u].pc = "backoff" /\ ~tasks[u].aborted
        /\ \E i \in DOMAIN clickhouse : clickhouse[i].task = u /\ ~clickhouse[i].ok
        /\ tasks[t].pc = "insert_type"

\* the task is between receiving a message and the end of its handling
Handling(t) == tasks[t].pc \in {"process", "insert_common", "insert_type"}

\* C11 as stated: the messages of one source are handled one at a time, and
\* the inserts of one source reach the sink in the order the broker
\* delivered the messages.
C11_SourceOrder ==
    /\ \A t \in DOMAIN tasks, u \in DOMAIN tasks :
          (t # u /\ tasks[t].config_id = tasks[u].config_id) => ~(Handling(t) /\ Handling(u))
    /\ \A i \in DOMAIN clickhouse, j \in DOMAIN clickhouse :
          (i < j /\ clickhouse[i].config_id = clickhouse[j].config_id) => clickhouse[i].offset <= clickhouse[j].offset

\* C12: for every message the common insert is issued before the
\* type-specific insert, and the type-specific insert is issued only on the
\* step where the common insert of the same message has returned (Ok).
C12_CommonBeforeType ==
    /\ [](\A j \in DOMAIN clickhouse :
            clickhouse[j].table \in DataTypes =>
                \E i \in 1..(j - 1) :
                    /\ clickhouse[i].table = "common" /\ clickhouse[i].ok
                    /\ clickhouse[i].task = clickhouse[j].task
                    /\ clickhouse[i].offset = clickhouse[j].offset)
    /\ [][\A t \in TaskIds :
            (t \in DOMAIN tasks /\ tasks[t].pc # "insert_type" /\ tasks'[t].pc = "insert_type") =>
                /\ tasks[t].pc = "insert_common"
                /\ Len(clickhouse') = Len(clickhouse) + 1
                /\ clickhouse'[Len(clickhouse')] = Insert(t, "common", TRUE)]_vars

C12_Witness ==
    \E j \in DOMAIN clickhouse :
        /\ j > 1 /\ clickhouse[j].table = "edr"
        /\ clickhouse[j - 1].table = "common" /\ clickhouse[j - 1].task = clickhouse[j].task
        /\ clickhouse[j - 1].offset = clickhouse[j].offset

\* the inserts into a table for message offset of task t that returned Ok
Stored(t, offset, tables) ==
    {i \in DOMAIN clickhouse : clickhouse[i].task = t /\ clickhouse[i].offset = offset /\ clickhouse[i].table \in tables /\ clickhouse[i].ok}

\* C13 as stated: once a message has been handled, a type-specific record
\* of it is in the sink if and only if a common record of it is.
C13_TypeIffCommon ==
    \A t \in DOMAIN tasks :
        Finished(t) =>
            (Stored(t, tasks[t].msg.offset, DataTypes) # {} <=> Stored(t, tasks[t].msg.offset, {"common"}) # {})

\* C14: a failed insert is not tried again (no second insert into the same
\* table for the same message by the same task), the step on which an
\* insert fails takes the task back to recv, and the task is not ended.
C14_NoRetryContinue ==
    /\ [](\A i \in DOMAIN clickhouse, j \in DOMAIN clickhouse :
            (i # j /\ clickhouse[i].task = clickhouse[j].task /\ clickhouse[i].offset = clickhouse[j].offset) =>
                clickhouse[i].table # clickhouse[j].table)
    /\ [][\A t \in TaskIds :
            (/\ t \in DOMAIN tasks
             /\ Len(clickhouse') = Len(clickhouse) + 1
             /\ clickhouse'[Len(clickhouse')].task = t
             /\ ~clickhouse'[Len(clickhouse')].ok) =>
                (tasks'[t].pc = "recv" /\ ~tasks'[t].aborted)]_vars

\* a task whose insert for message 1 failed is handling message 2
C14_Witness ==
    \E t \in DOMAIN tasks :
        /\ \E i \in DOMAIN clickhouse : clickhouse[i].task = t /\ clickhouse[i].offset = 1 /\ ~clickhouse[i].ok
        /\ tasks[t].msg.offset = 2 /\ tasks[t].pc = "insert_type"
        /\ ~ \E i \in DOMAIN clickhouse, j \in DOMAIN clickhouse : i # j /\ clickhouse[i].task = t /\ clickhouse[j].task = t /\ clickhouse[i].offset = 1 /\ clickhouse[j].offset = 1

\* the channel holds FeedCapacity values or more that the open receiver r
\* has not read
Full(r) == receivers[r].open /\ Len(feed) - receivers[r].next + 1 >= FeedCapacity

\* task t has stored the EDR record of message offset
StoredEdr(t, offset) == Stored(t, offset, {"common"}) # {} /\ Stored(t, offset, {"edr"}) # {}

\* C15: whatever the receivers of the feed (none, or one that never reads
\* and whose buffer is full), the step a task is at can be taken: it can
\* receive a message the broker has for it, and after the send it goes on
\* to process_message and the inserts.
C15_PublishNeverBlocks ==
    /\ [](\A t \in TaskIds :
            (t \in DOMAIN tasks /\ ~tasks[t].aborted) =>
                /\ (tasks[t].pc = "recv" /\ (delivered < MaxMsgs \/ Redelivered(t) # {})) => ENABLED WRecvOk(t)
                /\ tasks[t].pc = "process" => ENABLED WProcess(t)
                /\ tasks[t].pc = "insert_common" => ENABLED WInsertCommon(t)
                /\ tasks[t].pc = "insert_type" => ENABLED WInsertType(t))
    /\ [][\A t \in TaskIds :
            (t \in DOMAIN tasks /\ Len(feed') = Len(feed) + 1 /\ feed'[Len(feed')].task = t) =>
                tasks'[t].pc = "process"]_vars

\* a message sent with no receiver and a message sent onto the full buffer
\* of a receiver that has read nothing have both been stored
C15_Witness ==
    /\ Len(feed) > FeedCapacity + 1
    /\ feed[1].rx = 0 /\ StoredEdr(feed[1].task, feed[1].offset)
    /\ \E r \in DOMAIN receivers :
          /\ receivers[r].open /\ receivers[r].got = <<>> /\ receivers[r].lagged = 0
          /\ Len(feed) - receivers[r].next + 1 > FeedCapacity
    /\ feed[Len(feed)].rx = 1 /\ StoredEdr(feed[Len(feed)].task, feed[Len(feed)].offset)

\* the sends the channel holds for receiver r
Backlog(r) == {i \in DOMAIN feed : i >= receivers[r].next /\ i >= Oldest}

\* the sends receiver r has passed without reading them
Missed(r) == {i \in receivers[r].from..(receivers[r].next - 1) : \A k \in DOMAIN receivers[r].got : receivers[r].got[k] # i}

C17_AtMostOnce ==
    \A r \in DOMAIN receivers :
        \A k \in DOMAIN receivers[r].got, l \in DOMAIN receivers[r].got :
            LET a == feed[receivers[r].got[k]]
                b == feed[receivers[r].got[l]]
            IN  k # l => ~(Topic(a.config_id) = Topic(b.config_id) /\ a.offset = b.offset)

\* a call that runs to its end without failing, as one step
Serial(op, st) ==
    IF op = "start" THEN start(st, TRUE)
    ELSE IF op = "stop" THEN stop(st)
    ELSE refresh_consumers(st, TRUE, TRUE)

\* the ids tracked and, per source, the number of tasks not aborted
View(cons, tsk) ==
    [tracked |-> DOMAIN cons,
     live |-> [id \in Sources |-> Cardinality({t \in DOMAIN tsk : tsk[t].config_id = id /\ ~tsk[t].aborted})]]

ViewOf(st) == View(st.consumers, st.tasks)

\* C19 as stated: when two calls have both returned, the tracked set and
\* the live tasks are those of running the two calls one after the other in
\* one of the two orders.
C19_Serialized ==
    (DOMAIN calls = {1, 2} /\ calls[1].pc = "done" /\ calls[2].pc = "done") =>
        View(consumers, tasks) \in {ViewOf(Serial(calls[2].op, Serial(calls[1].op, Started))),
                                    ViewOf(Serial(calls[1].op, Serial(calls[2].op, Started)))}

\* the tasks of source id that have not been aborted
Live(id) == {t \in DOMAIN tasks : tasks[t].config_id = id /\ ~tasks[t].aborted}

\* C20: a start() that runs on its own on a service that tracks a task for
\* every active source returns having spawned one more task per active
\* source, and every active source then has two tasks (or more) that have
\* not been aborted: the one tracked before and the new one.
C20_StartNotIdempotent ==
    [][\A c \in CallIds :
        (/\ c \in DOMAIN calls /\ calls[c].op = "start" /\ calls[c].pc # "done"
         /\ calls'[c].pc = "done" /\ calls'[c].ok /\ calls'[c].alone
         /\ is_active \subseteq calls[c].tracked_at) =>
            /\ Len(tasks') = calls[c].tasks_at + Cardinality(is_active)
            /\ \A id \in is_active :
                  /\ Cardinality({t \in DOMAIN tasks' : tasks'[t].config_id = id /\ ~tasks'[t].aborted}) >= 2
                  /\ \E t \in DOMAIN tasks' : t > calls[c].tasks_at /\ tasks'[t].config_id = id /\ consumers'[id].handle = t
                  /\ \E t \in DOMAIN tasks' : t <= calls[c].tasks_at /\ tasks'[t].config_id = id /\ ~tasks'[t].aborted]_vars

\* a second start() over two active sources has returned: four tasks, two
\* per source, none aborted
C20_Witness ==
    /\ is_active = {"S1", "S2"}
    /\ DOMAIN calls = {1} /\ calls[1].op = "start" /\ calls[1].pc = "done" /\ calls[1].ok
    /\ Len(tasks) = 4
    /\ Cardinality(Live("S1")) = 2 /\ Cardinality(Live("S2")) = 2

\* the sends of task t for its current message
Published(t) ==
    {i \in DOMAIN feed : feed[i].task = t /\ feed[i].offset = tasks[t].msg.offset
                         /\ feed[i].payload = tasks[t].msg.doc /\ feed[i].data_type = tasks[t].msg.data_type}

\* C18 as stated: nothing is sent on the feed for a message that fails
\* JSON parsing or is unrecognized.
C18_PublishedOnlyClassified ==
    \A t \in DOMAIN tasks :
        tasks[t].class \in {"error", "unrecognized"} => Published(t) = {}

\* C18 amended: every message received with a payload is sent on the feed
\* once, with its payload and the declared type of its source, before it is
\* classified and whatever the classification: also when it is not JSON or
\* unrecognized and nothing is stored for it. Classifying and storing send
\* nothing.
C18_PublishedBeforeClassifying ==
    /\ [](\A t \in DOMAIN tasks :
            tasks[t].msg.offset > 0 => Cardinality(Published(t)) = 1)
    /\ [](Len(feed) <= delivered)
    /\ [][\A t \in TaskIds : (t \in DOMAIN tasks /\ tasks[t].pc # "recv") => (feed' = feed \/ tasks'[t] = tasks[t])]_vars

C18_Witness ==
    \E t \in DOMAIN tasks, u \in DOMAIN tasks :
        /\ Finished(t) /\ tasks[t].class = "error" /\ Cardinality(Published(t)) = 1 /\ Written(t) = {}
        /\ Finished(u) /\ tasks[u].class = "unrecognized" /\ Cardinality(Published(u)) = 1 /\ Written(u) = {}

\* ---------------------------------------------------------------------
\* C21: a worker is cancelled only between messages: a cancelled worker
\* never leaves a message whose common record is written and whose
\* type-specific write was not attempted.
C21_CancelledBetweenMessages ==
    \A t \in DOMAIN tasks :
        (tasks[t].pc = "done" /\ "common" \in WrittenOk(t)) => Written(t) \cap DataTypes # {}

\* ---------------------------------------------------------------------
\* C22: when stop() or refresh() has returned, every worker it cancelled
\* has ended; none of them can still write to the sink or publish.
C22_StopAwaitsWorkers ==
    result.op \in {"stop", "refresh"} =>
        \A t \in DOMAIN tasks : tasks[t].aborted => tasks[t].pc = "done"

\* ---------------------------------------------------------------------
\* C29: with no declared type, a document carrying all four EDR markers
\* and all four NGAV markers is handled by the EDR branch alone: it is
\* classified EDR when it parses as an EdrAlert and unrecognized otherwise,
\* and it is never classified or stored as NGAV.
C29_EdrTestFirst ==
    \A t \in DOMAIN tasks :
        LET m == tasks[t].msg
        IN  (tasks[t].class # "none" /\ m.data_type = "none" /\ m.doc.json
                /\ looks_like_edr(m.doc) /\ looks_like_ngav(m.doc)) =>
                /\ tasks[t].class = IF ParsesAsEdr(m.doc) THEN "edr" ELSE "unrecognized"
                /\ "ngav" \notin Written(t)
                /\ ~ParsesAsEdr(m.doc) => (tasks[t].pc = "recv" /\ Written(t) = {})

C29_Witness ==
    \E t \in DOMAIN tasks :
        /\ Finished(t) /\ tasks[t].msg.data_type = "none"
        /\ looks_like_edr(tasks[t].msg.doc) /\ looks_like_ngav(tasks[t].msg.doc)
        /\ ParsesAsNgav(tasks[t].msg.doc) /\ ~ParsesAsEdr(tasks[t].msg.doc)
        /\ tasks[t].class = "unrecognized" /\ Written(t) = {}

\* ---------------------------------------------------------------------
\* C30: a payload that is not JSON is dropped: process_message returns its
\* error once, the task is back in its receive loop, no insert is ever
\* issued for the message, and the task handles the messages that follow.
C30_NotJsonDropped ==
    /\ \A t \in DOMAIN tasks :
          (tasks[t].class # "none" /\ ~tasks[t].msg.doc.json) =>
              /\ tasks[t].class = "error"
              /\ tasks[t].pc \in {"recv", "backoff", "done"}
              /\ Written(t) = {}
    /\ \A i \in DOMAIN feed : ~feed[i].payload.json =>
          ~ \E j \in DOMAIN clickhouse : clickhouse[j].task = feed[i].task /\ clickhouse[j].offset = feed[i].offset

\* a task dropped message 1, which was not JSON, and has stored message 2
C30_Witness ==
    \E t \in DOMAIN tasks :
        /\ \E i \in DOMAIN feed : feed[i].task = t /\ feed[i].offset = 1 /\ ~feed[i].payload.json
        /\ ~ \E j \in DOMAIN clickhouse : clickhouse[j].task = t /\ clickhouse[j].offset = 1
        /\ tasks[t].msg.offset = 2 /\ Finished(t) /\ Written(t) = {"common", "edr"}

\* ---------------------------------------------------------------------
\* C23 as stated: a task reads its declared type once and uses it for
\* every message of its lifetime: all the envelopes a task publishes carry
\* the same declared type.
C23_DeclaredTypeReadOnce ==
    \A i \in DOMAIN feed, j \in DOMAIN feed :
        feed[i].task = feed[j].task => feed[i].data_type = feed[j].data_type

\* C23 amended: a task reads its declared type from the shared mapping for
\* every message, when it has received it: the message is labelled and
\* classified with the value the mapping holds at that moment, so a change
\* of the mapping applies to a running task from its next message on.
C23_DeclaredTypeReadPerMessage ==
    /\ [][\A t \in TaskIds :
            (/\ t \in DOMAIN tasks
             /\ Len(feed') = Len(feed) + 1
             /\ feed'[Len(feed')].task = t) =>
                /\ feed'[Len(feed')].data_type = MappingGet(data_source_mapping, tasks[t].config_id)
                /\ tasks'[t].msg.data_type = MappingGet(data_source_mapping, tasks[t].config_id)]_vars
    /\ [](\A t \in DOMAIN tasks :
            (tasks[t].class # "none" /\ tasks[t].msg.doc = EdrDoc) =>
                tasks[t].class = IF tasks[t].msg.data_type = "ngav" THEN "unrecognized" ELSE "edr")

\* the task stored message 1 as EDR under the declared type edr and, the
\* mapping having been changed to ngav, left the same document unrecognized
\* as message 2
C23_Witness ==
    /\ Len(feed) = 2 /\ feed[1].task = 1 /\ feed[2].task = 1
    /\ feed[1].payload = EdrDoc /\ feed[2].payload = EdrDoc
    /\ feed[1].data_type = "edr" /\ feed[2].data_type = "ngav"
    /\ Stored(1, 1, {"edr"}) # {}
    /\ Finished(1) /\ tasks[1].msg.offset = 2 /\ tasks[1].class = "unrecognized" /\ Written(1) = {}

\* ---------------------------------------------------------------------
\* the process_* and parent_* fields of an EDR alert
ProcessFields ==
    {"parent_cmdline", "parent_guid", "parent_hash", "parent_path", "parent_pid", "parent_publisher",
     "parent_reputation", "parent_username",
     "process_cmdline", "process_guid", "process_hash", "process_path", "process_pid", "process_publisher",
     "process_reputation", "process_username"}

PublisherFields == {"parent_publisher", "process_publisher"}

\* the JSON document of the message an insert belongs to
DocumentOf(e) == feed[CHOOSE i \in DOMAIN feed : feed[i].task = e.task /\ feed[i].offset = e.offset].payload.body

\* the inserts made for the EDR alerts that carry field values
RowsOf(table) == {i \in DOMAIN clickhouse : clickhouse[i].table = table /\ clickhouse[i].row # <<>>}

RecordsOf(alert) ==
    {StoreId(clickhouse, i) : i \in {j \in DOMAIN clickhouse :
        clickhouse[j].table = "common" /\ clickhouse[j].ok /\ clickhouse[j].alert = alert}}

\* C27: a CommonAlert stored twice (two insert_common_alert calls with the
\* same record, the same synthetic id) is one logical record of the table,
\* not two.
C27_StoredTwiceOneRecord ==
    \A alert \in CommonAlerts :
        Cardinality(RecordsOf(alert) \cap DOMAIN CommonAlertsTable(clickhouse)) <= 1

\* ---------------------------------------------------------------------
\* C24: a task holds a guard of the mapping only inside the statement that
\* reads its declared type, never while it waits in recv, in its sleep, in
\* an insert or for the lock itself, and it never holds the collection
\* lock; so whatever the tasks are doing, every start(), stop(),
\* refresh_consumers() and get_consumer_status() that has begun gets its
\* locks and returns.
C24_NoGuardWhileBlocked ==
    /\ [](\A t \in DOMAIN tasks : tasks[t].guard => tasks[t].pc = "read_mapping")
    /\ \A c \in CallIds : (c \in DOMAIN calls) ~> (c \in DOMAIN calls /\ calls[c].pc = "done")

\* a refresh_consumers() and a get_consumer_status() have both returned
\* while a task waits in an insert and another is in recv
C24_Witness ==
    /\ \E c \in DOMAIN calls, d \in DOMAIN calls :
          /\ calls[c].op = "refresh" /\ calls[c].pc = "done"
          /\ calls[d].op = "status" /\ calls[d].pc = "done"
    /\ \E t \in DOMAIN tasks : tasks[t].pc \in {"insert_common", "insert_type"}
    /\ \E t \in DOMAIN tasks : tasks[t].pc = "recv" /\ ~tasks[t].aborted

\* ---------------------------------------------------------------------
\* the sources a get_consumer_status() call reported
SeenIds(c) == {e.config_id : e \in calls[c].seen}

\* the sources of the list a start() has still to insert
ToInsert(c) == {calls[c].configs[i] : i \in DOMAIN calls[c].configs}

\* C25: refresh_consumers() is not atomic. From the end of its stop step to
\* its first insert it tracks no task, whatever the registry holds, and
\* during its start step it tracks the sources inserted so far; a
\* get_consumer_status() that takes the read lock in between returns that
\* empty or partial set. (Stated for a refresh beside which only status
\* calls run.)
C25_RefreshNotAtomic ==
    \A c \in DOMAIN calls :
        (calls[c].op = "refresh" /\ \A d \in DOMAIN calls \ {c} : calls[d].op = "status") =>
            /\ (calls[c].pc \in {"read_mapping", "write_mapping", "read_active"}) => DOMAIN consumers = {}
            /\ calls[c].pc = "insert" => DOMAIN consumers = is_active \ ToInsert(c)
            /\ calls[c].pc = "done" => DOMAIN consumers = is_active
            /\ \A d \in DOMAIN calls :
                  (calls[d].op = "status" /\ calls[d].pc = "done") =>
                      /\ SeenIds(d) \subseteq is_active
                      /\ SeenIds(d) # {} => "S1" \in SeenIds(d)

\* no task is tracked although the registry has an active source, while a
\* refresh_consumers() is between its stop step and its first insert, and
\* a get_consumer_status() call that ran meanwhile has returned the empty map
C25_Witness ==
    \E c \in DOMAIN calls, d \in DOMAIN calls :
        /\ is_active # {}
        /\ calls[c].op = "refresh" /\ calls[c].pc \in {"read_mapping", "write_mapping", "read_active"}
        /\ DOMAIN consumers = {}
        /\ calls[d].op = "status" /\ calls[d].pc = "done" /\ calls[d].seen = {}

\* two sources are active, a refresh_consumers() has inserted S1 alone and
\* a get_consumer_status() that ran meanwhile has returned one entry
PartlyRebuilt ==
    \E c \in DOMAIN calls, d \in DOMAIN calls :
        /\ is_active = {"S1", "S2"}
        /\ calls[c].op = "refresh" /\ calls[c].pc = "insert" /\ DOMAIN consumers = {"S1"}
        /\ calls[d].op = "status" /\ calls[d].pc = "done" /\ SeenIds(d) = {"S1"}

\* C34: when the registry read of start() succeeds and returns no active
\* config, start() returns Ok, spawns no task and leaves the collection
\* with the instances it had.
C34_StartNoActive ==
    (result.op = "start" /\ result.active = {} /\ result.err # "registry") =>
        /\ result.ok /\ result.err = "none"
        /\ Len(tasks) = result.tasks_before
        /\ DOMAIN consumers = result.tracked_before
        /\ \A id \in DOMAIN consumers : consumers[id].handle <= result.tasks_before

\* start() returned Ok on an empty list while instances were tracked
C34_Witness ==
    /\ result.op = "start" /\ result.active = {} /\ result.ok
    /\ consumers # EmptyMap
    /\ \E t \in DOMAIN tasks : ~tasks[t].aborted

\* C35: stop() on an empty collection returns Ok and changes neither the
\* collection, the tasks, the mapping nor the broadcast channel.
C35_StopEmptyNoChange ==
    [][(result' # result /\ result'.op = "stop" /\ consumers = EmptyMap) =>
          /\ result'.ok /\ result'.err = "none"
          /\ consumers' = consumers
          /\ tasks' = tasks
          /\ data_source_mapping' = data_source_mapping
          /\ feed' = feed /\ receivers' = receivers /\ clickhouse' = clickhouse]_vars

\* stop() has returned on an empty collection while an untracked task was
\* still running and messages were in the channel
C35_Witness ==
    /\ result.op = "stop" /\ result.tracked_before = {} /\ result.ok
    /\ consumers = EmptyMap
    /\ \E t \in DOMAIN tasks : ~tasks[t].aborted
    /\ feed # <<>>

\* the active configs start() had spawned a task for before the config whose
\* consumer failed, in the order of the loop
SpawnedBeforeFailure ==
    LET active == SelectSeq(SourceOrder, LAMBDA id : id \in result.active)
        k == CHOOSE i \in 1..Len(active) : active[i] \in bad_config /\ \A j \in 1..(i - 1) : active[j] \notin bad_config
    IN  SubSeq(active, 1, k - 1)

\* C36: when the consumer of the k-th active config cannot be created or
\* subscribed, start() returns that error; the tasks of the k-1 earlier
\* configs are spawned, running and tracked, and no task is spawned for
\* the k-th or any later config.
C36_StartStopsAtFailure ==
    (result.op = "start" /\ result.err = "consumer") =>
        /\ ~result.ok
        /\ Len(tasks) = result.tasks_before + Len(SpawnedBeforeFailure)
        /\ \A i \in 1..Len(SpawnedBeforeFailure) :
              LET id == SpawnedBeforeFailure[i]
                  t == result.tasks_before + i
              IN  /\ tasks[t].config_id = id /\ ~tasks[t].aborted
                  /\ id \in DOMAIN consumers /\ consumers[id].handle = t
        /\ DOMAIN consumers = result.tracked_before \cup {SpawnedBeforeFailure[i] : i \in 1..Len(SpawnedBeforeFailure)}

\* start() failed at the second of three active configs: the first is
\* tracked and running, the third was never spawned
C36_Witness ==
    /\ result.op = "start" /\ result.err = "consumer" /\ result.active = {"S1", "S2", "S3"}
    /\ result.tasks_before = 0
    /\ Len(tasks) = 1 /\ tasks[1].config_id = "S1" /\ ~tasks[1].aborted
    /\ DOMAIN consumers = {"S1"}

\* C37: after insert_common_alert has failed for a message, no insert into
\* a type-specific table is issued for that message.
C37_NoTypeAfterFailedCommon ==
    \A i \in DOMAIN clickhouse :
        (clickhouse[i].table = "common" /\ ~clickhouse[i].ok) =>
            ~ \E j \in DOMAIN clickhouse :
                /\ clickhouse[j].table \in DataTypes
                /\ clickhouse[j].task = clickhouse[i].task
                /\ clickhouse[j].offset = clickhouse[i].offset

\* the common insert of one message failed and the task went on to store
\* both records of its next message
C37_Witness ==
    \E i \in DOMAIN clickhouse :
        /\ clickhouse[i].table = "common" /\ ~clickhouse[i].ok
        /\ \E j \in DOMAIN clickhouse, k \in DOMAIN clickhouse :
              /\ i < j /\ j < k
              /\ clickhouse[j].task = clickhouse[i].task /\ clickhouse[k].task = clickhouse[i].task
              /\ clickhouse[j].offset # clickhouse[i].offset /\ clickhouse[k].offset = clickhouse[j].offset
              /\ clickhouse[j].table = "common" /\ clickhouse[j].ok
              /\ clickhouse[k].table \in DataTypes /\ clickhouse[k].ok

\* C39: a refresh_data_source_mapping() whose registry read fails returns
\* the error and leaves the mapping (and everything else in memory) as it
\* was before the call.
C39_FailedRefreshKeepsMapping ==
    [][(result' # result /\ result'.op = "refresh_mapping" /\ ~result'.ok) =>
          /\ result'.err = "registry"
          /\ data_source_mapping' = data_source_mapping
          /\ consumers' = consumers /\ tasks' = tasks]_vars

\* a refresh failed while the registry held rows the mapping does not
\* reflect: the mapping still has its entry of before
C39_Witness ==
    /\ result.op = "refresh_mapping" /\ ~result.ok
    /\ data_source_mapping # EmptyMap
    /\ data_source_mapping # MappingOf(data_source_configs)

\* the mappings refresh_data_source_mapping() has written in full: the one
\* of the construction and the one of every call that has ended its loop
CompleteMappings ==
    {MappingOf(TwoRows)} \cup
    {MappingOf(calls[c].rows) : c \in {d \in DOMAIN calls : calls[d].op = "refresh" /\ calls[d].pc \in {"read_active", "insert", "done"} /\ calls[d].ok}}

\* the calls and tasks that hold a read guard of the mapping
MappingReaders == ReaderCalls("mapping") \cup ReaderTasks("mapping")

\* C38: whenever a task or a get_consumer_status() call holds the read guard
\* of the mapping, the mapping is one that a refresh wrote in full (the old
\* or the new one), never the cleared or partly refilled one; and the status
\* a call returns carries the types of such a mapping.
C38_MappingReplacedAtomically ==
    /\ MappingReaders # {} =>
          /\ Writers("mapping") = {}
          /\ data_source_mapping \in CompleteMappings
    /\ \A t \in DOMAIN tasks :
          (tasks[t].pc = "process" /\ tasks[t].msg.data_type # "none") =>
              \E m \in CompleteMappings : MappingGet(m, tasks[t].config_id) = tasks[t].msg.data_type

\* a refresh has cleared the mapping and put back the first of two rows
\* while a status call waits for the read guard; a task has read its type
\* from the mapping of before
C38_Witness ==
    \E c \in DOMAIN calls, d \in DOMAIN calls, t \in DOMAIN tasks :
        /\ calls[c].pc = "fill_mapping" /\ Len(calls[c].pending) = 1 /\ Cardinality(calls[c].rows) = 2
        /\ data_source_mapping \notin CompleteMappings
        /\ calls[d].op = "status" /\ calls[d].pc = "lock_mapping"
        /\ tasks[t].pc = "process" /\ tasks[t].msg.data_type = "edr"

\* the name the registry holds for a source
ConfigName(id) == "kafka-" \o id

\* the message an insert was made for, as the task published it
MessageOf(e) == feed[CHOOSE i \in DOMAIN feed : feed[i].task = e.task /\ feed[i].offset = e.offset]

\* C33 as stated: the common row and the type-specific row written for a
\* message carry the message's topic, partition and offset, and the common
\* row carries the name of the source the message came from.
C33_Provenance ==
    \A i \in RowsOf("common") \cup RowsOf("edr") :
        LET row == clickhouse[i].row
            m == MessageOf(clickhouse[i])
        IN  /\ row.kafka_topic = Topic(m.config_id)
            /\ row.kafka_partition = m.partition
            /\ row.kafka_offset = m.offset
            /\ clickhouse[i].table = "common" => row.kafka_config_name = ConfigName(m.config_id)

\* an EDR document whose create_time is not there or is no RFC 3339
\* timestamp, its other fields being valid
BadTimestamp(doc) ==
    /\ "body" \in DOMAIN doc
    /\ "create_time" \notin DOMAIN doc.body \/ doc.body.create_time \notin DOMAIN Rfc3339

\* C32 as stated: a document whose create_time is missing or unparseable,
\* received under the declared type edr or under none, is classified and
\* both its rows are handed to the sink with the current time as their
\* create_time; the message is not skipped.
C32_TimestampFallback ==
    \A t \in DOMAIN tasks :
        (BadTimestamp(tasks[t].msg.doc) /\ tasks[t].msg.data_type # "ngav" /\ tasks[t].class # "none") =>
            /\ tasks[t].class = "edr"
            /\ \A i \in DOMAIN clickhouse :
                  clickhouse[i].task = t => clickhouse[i].row.create_time = "now"
            /\ Finished(t) => "common" \in Written(t)
            /\ (Finished(t) /\ "common" \in WrittenOk(t)) => "edr" \in Written(t)

\* the payload a decoding with replacement characters gave
Replaced(doc) == "replaced" \in DOMAIN doc

\* the document a decoded payload is but for the replaced string value
Undamaged(doc) == [f \in {"json", "fld", "restEdr", "restNgav"} |-> doc[f]]

\* C31: a payload with invalid UTF-8 sequences is decoded with replacement
\* characters and handled like every message: it is published and handed
\* to process_message, it classifies as the document it is apart from the
\* replaced bytes, and once handled it has had its common insert if it
\* classified. No message with a payload is skipped.
C31_LossyDecodeProcessed ==
    /\ Len(feed) = delivered
    /\ \A i \in DOMAIN feed : feed[i].offset = i
    /\ \A t \in DOMAIN tasks :
          (tasks[t].msg.offset > 0 /\ Replaced(tasks[t].msg.doc)) =>
              /\ tasks[t].class \in {"none", Classify(tasks[t].msg.data_type, Undamaged(tasks[t].msg.doc))}
              /\ tasks[t].class = "none" => tasks[t].pc = "process"
              /\ (Finished(t) /\ tasks[t].class \in DataTypes) => "common" \in Written(t)

\* an EDR document with a replaced string value has been stored in both
\* tables
C31_Witness ==
    \E t \in DOMAIN tasks :
        /\ Replaced(tasks[t].msg.doc) /\ tasks[t].msg.doc.json
        /\ Finished(t) /\ tasks[t].class = "edr"
        /\ WrittenOk(t) = {"common", "edr"}

\* the alerts a directed path of at most d relations leads to from the
\* alerts of S
RECURSIVE ReachableWithin(_, _, _)
ReachableWithin(g, S, d) ==
    IF d = 0 THEN S
    ELSE ReachableWithin(g, S \cup {g.edges[k][2] : k \in {j \in DOMAIN g.edges : g.edges[j][1] \in S}}, d - 1)

\* C40 as stated: find_related_alerts(id, d) returns each alert that a
\* directed path of at most d relations leads to from the alert id, the
\* alert itself included, each once and no other; for an id the graph does
\* not hold it returns nothing.
C40_RelatedWithinDepth ==
    related.alert_id # "none" =>
        LET res == related.result
        IN  /\ \A i \in DOMAIN res, j \in DOMAIN res : res[i] = res[j] => i = j
            /\ {res[i] : i \in DOMAIN res} =
                  IF HasAlert(graph, related.alert_id)
                  THEN ReachableWithin(graph, {related.alert_id}, related.max_depth)
                  ELSE {}
====
